---- MODULE Spec2Model ----
(***************************************************************************)
(* Model of the brand-visibility metrics pipeline of brank-backend:        *)
(* provider clients (llm_clients/*.py with utils/retry.py), the fan-out    *)
(* executor (services/llm_query_service.py), the prompt resolver           *)
(* (services/prompt_generation_service.py) and the cache gate              *)
(* (services/cache_service.py with db/repositories/metrics_repository.py). *)
(***************************************************************************)
EXTENDS Integers, Sequences, FiniteSets, TLC

VARIABLES
    \* ---- provider client: one query() call under the retry decorator
    qClient,      \* which client's query() is running ("" when idle)
    qPc,          \* "idle" | "calling" | "returned" | "raised"
    qAttempt,     \* tenacity's attempt_number of the current attempt
    qExchanges,   \* backend exchanges performed by this query() call
    qThrown,      \* what each exchange raised inside the try body ("ok" = none)
    qSlept,       \* total backoff seconds slept by this call
    qRaised,      \* exception class that left query() ("" if none)
    qAnswer,      \* attempt number whose answer was returned (0 if none)
    qCalls,       \* completed query() calls so far
    \* ---- fan-out executor: one query_llms_parallel() call
    fPrompts,     \* prompts argument (a list of prompt texts)
    fClients,     \* keys of the llm_clients argument
    fPc,          \* "start" | "collecting" | "returned" | "raised"
    fMaxWorkers,  \* max_workers of the thread pool
    fUnit,        \* per task: [st: pending|running|done|collected, out: future's outcome]
    fResults,     \* results: llm_name -> list of response dicts
    fError,       \* exception class that left query_llms_parallel ("" if none)
    \* ---- the same thread pool with many tasks, tracked by count
    pPending,     \* submitted tasks no worker has taken yet
    pRunning,     \* tasks a worker is executing
    pDone,        \* tasks whose future is finished
    \* ---- prompt resolver: get_or_generate_prompts() calls for one brand
    rPromptRows,  \* prompt texts of the brand's committed Prompt rows, in row order
    rCount,       \* count argument (settings.prompts_n)
    rPc,          \* "start" | "returned" | "raised"
    rExisting,    \* existing_prompts read at the start of the call
    rReturned,    \* the list the call returned
    rGenAsked,    \* count argument of every generate_prompts request of the call
    rGenReply,    \* lines of the generator's reply (<< >> if none)
    rRuns,        \* calls completed so far
    \* ---- cache gate: the metrics table and check_cache() calls
    mTable,       \* rows of the metrics table: [metric_id, brand_id, llm_name, value, updated_at]
    now,          \* datetime.utcnow()
    cOut,         \* the last check_cache call: its arguments and what it did
    \* ---- response persistence: the responses table and one process_responses() call
    respRows,     \* rows of the responses table: [response_id, prompt_id, llm_name, answer, lists]
    dbSession,    \* "active" | "inactive" (a flush of the session has failed)
    sQueries,     \* (llm_name, prompt) -> client.query() calls made for its units
    prPc,         \* "idle" | "looping" | "returned" | "raised"
    prTodo,       \* (llm_name, position) of the responses still to be iterated
    prCache,      \* prompt_cache: prompt text -> prompt_id
    prSnap,       \* what the tables held when the session's transaction began
    \* ---- metrics calculator: calculate_and_store_metrics() calls
    xPc,          \* "idle" | "looping" | "returned" | "raised"
    xBrand,       \* brand_id argument
    xNames,       \* llm_names argument
    xDone,        \* iterations of the loop over llm_names completed
    xResult,      \* metrics_result: llm_name -> metrics or failure marker
    xUpserted,    \* llm_name -> utcnow() at its upsert in this call
    xTable,       \* the metrics table as the call's session sees it
    xBefore,      \* the metrics table when the call began
    xRuns,        \* calls begun so far
    \* ---- one unit of the fan-out
    uCall,        \* the last _query_single call: its client, prompt, the client's
                  \* outcome, what it returned or raised, and the entry's error
    \* ---- the orchestrator: get_or_compute_metrics() calls
    gBrands,      \* websites that have a row in the brands table
    gProfiles,    \* rows of the time_profiles table
    gCall,        \* the last request: its arguments and what it did
    \* ---- one call of a function of services/metrics_calculator.py
    kArgs,        \* the function called and its arguments
    kOut,         \* what the call returned
    \* ---- the brands table and BrandRepository.get_or_create() calls
    bRows,        \* committed rows of the brands table: [brand_id, name, website]
    bLog,         \* the get_or_create calls made one after the other, with what each returned
    bReq          \* per request in flight: where it is and the brand it got

clientVars == <<qClient, qPc, qAttempt, qExchanges, qThrown, qSlept, qRaised, qAnswer, qCalls>>

fanVars == <<fPrompts, fClients, fPc, fMaxWorkers, fUnit, fResults, fError>>

poolVars == <<pPending, pRunning, pDone>>

resVars == <<rPromptRows, rCount, rPc, rExisting, rReturned, rGenAsked, rGenReply, rRuns>>

cacheVars == <<mTable, now, cOut>>

persistVars == <<respRows, dbSession, sQueries, prPc, prTodo, prCache, prSnap>>

calcVars == <<xPc, xBrand, xNames, xDone, xResult, xUpserted, xTable, xBefore, xRuns>>

unitVars == <<uCall>>

pipeVars == <<gBrands, gProfiles, gCall>>

pureVars == <<kArgs, kOut>>

brandVars == <<bRows, bLog, bReq>>

vars == <<clientVars, fanVars, poolVars, resVars, cacheVars, persistVars, calcVars, unitVars,
          pipeVars, pureVars, brandVars>>

\* What the operations of one component leave alone.
outsideClient == <<fanVars, poolVars, resVars, cacheVars, persistVars, calcVars, unitVars, pipeVars, pureVars, brandVars>>
outsideFan == <<clientVars, poolVars, resVars, cacheVars, persistVars, calcVars, unitVars, pipeVars, pureVars, brandVars>>
outsidePool == <<clientVars, resVars, cacheVars, persistVars, calcVars, unitVars, pipeVars, pureVars, brandVars>>
outsideResolver == <<clientVars, fanVars, poolVars, cacheVars, persistVars, calcVars, unitVars, pipeVars, pureVars, brandVars>>
outsideCache == <<clientVars, fanVars, poolVars, resVars, persistVars, calcVars, unitVars, pipeVars, pureVars, brandVars>>
outsideBrands == <<clientVars, fanVars, poolVars, resVars, cacheVars, persistVars, calcVars, unitVars, pipeVars, pureVars>>

-----------------------------------------------------------------------------
(* Provider clients                                                        *)

Clients == {"chatgpt", "gemini", "grok", "perplexity"}

\* Exception classes that occur in the clients, with their direct base class.
Parent(cls) ==
    CASE cls = "RateLimitError"    -> "OpenAIError"
      [] cls = "APITimeoutError"   -> "OpenAIError"
      [] cls = "OpenAIError"       -> "Exception"
      [] cls = "ResourceExhausted" -> "GoogleAPIError"
      [] cls = "DeadlineExceeded"  -> "GoogleAPIError"
      [] cls = "GoogleAPIError"    -> "Exception"
      [] cls = "Timeout"           -> "RequestException"
      [] cls = "RequestException"  -> "Exception"
      [] cls = "KeyError"          -> "Exception"
      [] cls = "JSONDecodeError"   -> "ValueError"
      [] cls = "ValueError"        -> "Exception"
      [] cls = "AttributeError"    -> "Exception"
      [] cls = "TypeError"         -> "Exception"
      [] cls = "LLMTimeoutError"   -> "LLMError"
      [] cls = "LLMAPIError"       -> "LLMError"
      [] cls = "LLMRateLimitError" -> "LLMError"
      [] cls = "LLMError"          -> "Exception"
      [] OTHER                     -> ""

RECURSIVE IsA(_, _)
IsA(e, cls) == IF e = "" THEN FALSE ELSE IF e = cls THEN TRUE ELSE IsA(Parent(e), cls)

\* The four kinds of the client boundary.
LLMKinds == {"LLMTimeoutError", "LLMRateLimitError", "LLMAPIError", "LLMError"}

\* What the try body of query() can raise, per client ("ok" is a normal return).
\* chatgpt/gemini: the SDK's exceptions, or any other exception (e.g. a reply
\* without text).  grok/perplexity: requests' exceptions, the client's own
\* raise for HTTP 429 and for a status other than 200, a KeyError on a reply
\* without choices, or any other exception.
TryBody(c) ==
    CASE c = "chatgpt" -> {"ok", "RateLimitError", "APITimeoutError", "OpenAIError", "Exception"}
      [] c = "gemini"  -> {"ok", "ResourceExhausted", "DeadlineExceeded", "GoogleAPIError", "Exception"}
      [] OTHER         -> {"ok", "Timeout", "RequestException", "KeyError",
                           "LLMRateLimitError", "LLMAPIError", "Exception"}

\* A backend exchange that timed out.
BackendTimeouts == {"APITimeoutError", "DeadlineExceeded", "Timeout"}

RequestsHandlersNoCatchAll ==
    << [catch |-> {"Timeout"},          raise |-> "LLMTimeoutError"],
       [catch |-> {"RequestException"}, raise |-> "LLMAPIError"],
       [catch |-> {"KeyError"},         raise |-> "LLMAPIError"],
       [catch |-> {"LLMRateLimitError", "LLMTimeoutError", "LLMAPIError"}, raise |-> "reraise"] >>

\* The except clauses of grok's and perplexity's query(), in source order.
RequestsHandlers ==
    << [catch |-> {"Timeout"},          raise |-> "LLMTimeoutError"],
       [catch |-> {"RequestException"}, raise |-> "LLMAPIError"],
       [catch |-> {"KeyError"},         raise |-> "LLMAPIError"],
       [catch |-> {"LLMRateLimitError", "LLMTimeoutError", "LLMAPIError"}, raise |-> "reraise"],
       [catch |-> {"Exception"},        raise |-> "LLMError"] >>

\* The except clauses of chatgpt's query(), in source order.
ChatGPTHandlers ==
    << [catch |-> {"RateLimitError"},  raise |-> "LLMRateLimitError"],
       [catch |-> {"APITimeoutError"}, raise |-> "LLMTimeoutError"],
       [catch |-> {"OpenAIError"},     raise |-> "LLMAPIError"],
       [catch |-> {"Exception"},       raise |-> "LLMError"] >>

\* The except clauses of gemini's query(), in source order.
GeminiHandlers ==
    << [catch |-> {"ResourceExhausted"}, raise |-> "LLMRateLimitError"],
       [catch |-> {"DeadlineExceeded"},  raise |-> "LLMTimeoutError"],
       [catch |-> {"GoogleAPIError"},    raise |-> "LLMAPIError"],
       [catch |-> {"Exception"},         raise |-> "LLMError"] >>

Handlers(c) ==
    CASE c = "chatgpt" -> ChatGPTHandlers
      [] c = "gemini"  -> GeminiHandlers
      [] OTHER         -> RequestsHandlers

\* Python's try/except: the first clause that matches the raised exception's
\* class (or a base of it) handles it; without a match it propagates as is.
RECURSIVE Handle(_, _, _)
Handle(hs, i, e) ==
    IF i > Len(hs) THEN e
    ELSE IF \E cls \in hs[i].catch : IsA(e, cls)
         THEN (IF hs[i].raise = "reraise" THEN e ELSE hs[i].raise)
         ELSE Handle(hs, i + 1, e)

\* The exception that leaves the body of query() when its try body raised e.
MapException(c, e) == Handle(Handlers(c), 1, e)

RetryOnAnyLLMError(c) == {"LLMError"}

\* The exceptions= argument of each client's @retry_with_backoff.
RetryOn(c) ==
    CASE c = "chatgpt" -> {"APITimeoutError"}
      [] c = "gemini"  -> {"DeadlineExceeded"}
      [] OTHER         -> {"Timeout", "RequestException"}

\* retry_with_backoff(max_attempts=3, min_wait=2, max_wait=10)
max_attempts == 3
min_wait == 2
max_wait == 10

RECURSIVE Pow2(_)
Pow2(k) == IF k <= 0 THEN 1 ELSE 2 * Pow2(k - 1)

Max2(a, b) == IF a >= b THEN a ELSE b
Min2(a, b) == IF a <= b THEN a ELSE b

\* tenacity wait_exponential(multiplier=1, min, max) after attempt k.
wait_exponential(k) == Max2(Max2(0, min_wait), Min2(1 * Pow2(k - 1), max_wait))

\* retry_if_exception_type(exceptions): looks at the exception that left the
\* wrapped function, not at its cause.
ShouldRetry(c, escaped) == \E cls \in RetryOn(c) : IsA(escaped, cls)

\* Number of query() calls explored.
MaxCalls == 4

QueryStart(c) ==
    /\ qPc \in {"idle", "returned", "raised"}
    /\ qCalls < MaxCalls
    /\ qClient' = c
    /\ qPc' = "calling"
    /\ qAttempt' = 1
    /\ qExchanges' = 0
    /\ qThrown' = << >>
    /\ qSlept' = 0
    /\ qRaised' = ""
    /\ qAnswer' = 0
    /\ UNCHANGED qCalls
    /\ UNCHANGED outsideClient

\* One attempt of the decorated query(): a backend exchange, the except
\* clauses, then tenacity's decision to return, retry after a sleep, or raise.
QueryAttempt(t) ==
    /\ qPc = "calling"
    /\ t \in TryBody(qClient)
    /\ qExchanges' = qExchanges + 1
    /\ qThrown' = Append(qThrown, t)
    /\ IF t = "ok"
       THEN /\ qPc' = "returned"
            /\ qAnswer' = qAttempt
            /\ qCalls' = qCalls + 1
            /\ UNCHANGED <<qAttempt, qSlept, qRaised>>
       ELSE LET escaped == MapException(qClient, t) IN
            IF ShouldRetry(qClient, escaped) /\ qAttempt < max_attempts
            THEN /\ qSlept' = qSlept + wait_exponential(qAttempt)
                 /\ qAttempt' = qAttempt + 1
                 /\ UNCHANGED <<qPc, qRaised, qAnswer, qCalls>>
            ELSE /\ qPc' = "raised"
                 /\ qRaised' = escaped
                 /\ qCalls' = qCalls + 1
                 /\ UNCHANGED <<qAttempt, qSlept, qAnswer>>
    /\ UNCHANGED qClient
    /\ UNCHANGED outsideClient

ClientIdle ==
    /\ qClient = ""
    /\ qPc = "idle"
    /\ qAttempt = 0
    /\ qExchanges = 0
    /\ qThrown = << >>
    /\ qSlept = 0
    /\ qRaised = ""
    /\ qAnswer = 0
    /\ qCalls = 0

-----------------------------------------------------------------------------
(* Fan-out executor: query_llms_parallel and _query_single                 *)

\* Prompt texts and the longest prompt list explored.
PromptTexts == {"p1", "p2"}
MaxPrompts == 2
\* Largest number of (provider, prompt) tasks explored with per-task state.
MaxUnits == 4

\* The llm_clients maps explored (create_llm_clients builds one client per
\* configured API key, possibly none).
ClientMaps == {{}, {"grok"}, {"chatgpt", "gemini"}}

SeqsUpTo(S, n) == UNION {[1..k -> S] : k \in 0..n}

\* tasks: one per (llm_name, prompt position) combination.
Tasks == fClients \X (1..Len(fPrompts))

\* The ceiling of the worker pool.
WorkerCeiling == 64

UncappedWorkers(n) == n

\* max_workers = min(len(tasks), 64)
MaxWorkersFor(n) == Min2(n, WorkerCeiling)

NoOutcome == [kind |-> "none", parsed |-> FALSE]

\* What _query_single can do for a task: return (answer, brands, citations),
\* with the structured section parsed or, on a parse failure, the fallback
\* with empty lists; or let the client's exception through.  "Exception" is a
\* client that breaks the four-kind contract (LLMClient is a duck-typed
\* protocol).
UnitOutcomes ==
    {[kind |-> "ok", parsed |-> b] : b \in BOOLEAN}
        \cup {[kind |-> k, parsed |-> FALSE] : k \in LLMKinds \cup {"Exception"}}

\* The text a provider's backend answers to a prompt, and what is extracted
\* from its structured section.
AnswerOf(llm, prompt) == <<"answer", llm, prompt>>
BrandsOf(llm, prompt) == <<"brands", llm, prompt>>
CitationsOf(llm, prompt) == <<"citations", llm, prompt>>

future_to_task_last(u) == <<CHOOSE l \in fClients : TRUE, fPrompts[Len(fPrompts)]>>

\* future_to_task[future]: the (llm_name, prompt) stored with the future of
\* task u when it was submitted.
future_to_task(u) == <<u[1], fPrompts[u[2]]>>

FanHandlersNoCatchAll ==
    << [catch |-> "LLMRateLimitError", prefix |-> "Rate limit: "],
       [catch |-> "LLMError",          prefix |-> ""] >>

\* The except clauses around future.result(), in source order.
FanHandlers ==
    << [catch |-> "LLMRateLimitError", prefix |-> "Rate limit: "],
       [catch |-> "LLMError",          prefix |-> ""],
       [catch |-> "Exception",         prefix |-> "Unexpected error: "] >>

\* Index of the first except clause that catches class e (0: none does).
RECURSIVE FirstHandler(_, _, _)
FirstHandler(hs, i, e) ==
    IF i > Len(hs) THEN 0
    ELSE IF IsA(e, hs[i].catch) THEN i ELSE FirstHandler(hs, i + 1, e)

\* error is None
NoError == << >>

\* The dict appended to results[llm_name] for a future with outcome o that
\* was submitted for task u; the raising client's message names the client.
ResultEntry(u, o) ==
    LET key == future_to_task(u)
        h   == FirstHandler(FanHandlers, 1, o.kind)
    IN IF o.kind = "ok"
       THEN [prompt        |-> key[2],
             answer        |-> AnswerOf(u[1], fPrompts[u[2]]),
             brands_list   |-> IF o.parsed THEN BrandsOf(u[1], fPrompts[u[2]]) ELSE << >>,
             citation_list |-> IF o.parsed THEN CitationsOf(u[1], fPrompts[u[2]]) ELSE << >>,
             error         |-> NoError]
       ELSE [prompt        |-> key[2],
             answer        |-> << >>,
             brands_list   |-> << >>,
             citation_list |-> << >>,
             error         |-> <<FanHandlers[h].prefix, o.kind, u[1]>>]

Running == {u \in Tasks : fUnit[u].st = "running"}

AnyCollected == \E u \in Tasks : fUnit[u].st = "collected"

\* as_completed() is exhausted: every submitted future has been yielded.
AllCollected == \A u \in Tasks : fUnit[u].st = "collected"

FanIdle ==
    /\ fPrompts = << >>
    /\ fClients = {}
    /\ fPc = "idle"
    /\ fMaxWorkers = 0
    /\ fUnit = << >>
    /\ fResults = << >>
    /\ fError = ""

FanInit ==
    /\ fPrompts \in SeqsUpTo(PromptTexts, MaxPrompts)
    /\ fClients \in ClientMaps
    /\ Len(fPrompts) * Cardinality(fClients) <= MaxUnits
    /\ fPc = "start"
    /\ fMaxWorkers = 0
    /\ fUnit = << >>
    /\ fResults = << >>
    /\ fError = ""

\* results initialised, tasks built, the pool created and every task
\* submitted.  ThreadPoolExecutor(max_workers=0) raises ValueError.
FanSubmit ==
    /\ fPc = "start"
    /\ fResults' = [l \in fClients |-> << >>]
    /\ fMaxWorkers' = MaxWorkersFor(Cardinality(Tasks))
    /\ IF MaxWorkersFor(Cardinality(Tasks)) <= 0
       THEN /\ fPc' = "raised"
            /\ fError' = "ValueError"
            /\ UNCHANGED fUnit
       ELSE /\ fPc' = "collecting"
            /\ fUnit' = [u \in Tasks |-> [st |-> "pending", out |-> NoOutcome]]
            /\ UNCHANGED fError
    /\ UNCHANGED <<fPrompts, fClients, outsideFan>>

\* A free worker thread takes a submitted task.
UnitStart(u) ==
    /\ fPc = "collecting"
    /\ u \in Tasks
    /\ fUnit[u].st = "pending"
    /\ Cardinality(Running) < fMaxWorkers
    /\ fUnit' = [fUnit EXCEPT ![u].st = "running"]
    /\ UNCHANGED <<fPrompts, fClients, fPc, fMaxWorkers, fResults, fError, outsideFan>>

\* _query_single for task u ends; its future holds the result or exception.
UnitFinish(u, o) ==
    /\ fPc = "collecting"
    /\ u \in Tasks
    /\ fUnit[u].st = "running"
    /\ o \in UnitOutcomes
    /\ fUnit' = [fUnit EXCEPT ![u] = [st |-> "done", out |-> o]]
    /\ UNCHANGED <<fPrompts, fClients, fPc, fMaxWorkers, fResults, fError, outsideFan>>

\* One iteration of the as_completed loop for a finished future.  An
\* exception no except clause catches leaves the loop and, once the with
\* block has shut the pool down, query_llms_parallel.
Collect(u) ==
    /\ fPc = "collecting"
    /\ u \in Tasks
    /\ fUnit[u].st = "done"
    /\ LET o == fUnit[u].out
           key == future_to_task(u)
       IN IF o.kind = "ok" \/ FirstHandler(FanHandlers, 1, o.kind) # 0
          THEN /\ fResults' = [fResults EXCEPT ![key[1]] = Append(@, ResultEntry(u, o))]
               /\ fUnit' = [fUnit EXCEPT ![u].st = "collected"]
               /\ UNCHANGED <<fPc, fError>>
          ELSE /\ fPc' = "raised"
               /\ fError' = o.kind
               /\ UNCHANGED <<fResults, fUnit>>
    /\ UNCHANGED <<fPrompts, fClients, fMaxWorkers, outsideFan>>

ReturnAfterFirst == fPc = "collecting" /\ AnyCollected

\* The loop over as_completed() ends, the pool is shut down (wait=True).
ReadyToReturn == fPc = "collecting" /\ AllCollected

FanReturn ==
    /\ ReadyToReturn
    /\ fPc' = "returned"
    /\ UNCHANGED <<fPrompts, fClients, fMaxWorkers, fUnit, fResults, fError, outsideFan>>

FanNext ==
    \/ FanSubmit
    \/ \E u \in Tasks : UnitStart(u)
    \/ \E u \in Tasks, o \in UnitOutcomes : UnitFinish(u, o)
    \/ \E u \in Tasks : Collect(u)
    \/ FanReturn

-----------------------------------------------------------------------------
(* The worker pool of query_llms_parallel at scale: the tasks are tracked   *)
(* by count, so that task sets larger than the ceiling are explored.        *)

\* Longest prompt list explored by count (4 providers x 17 prompts = 68 tasks).
MaxPoolPrompts == 17

PoolIdle ==
    /\ pPending = 0
    /\ pRunning = 0
    /\ pDone = 0

PoolInit ==
    /\ \E k \in 0..MaxPoolPrompts : fPrompts = [i \in 1..k |-> "p1"]
    /\ fClients \in {{"chatgpt"}, {"chatgpt", "gemini", "grok"}, Clients}
    /\ fPc = "start"
    /\ fMaxWorkers = 0
    /\ fUnit = << >>
    /\ fResults = << >>
    /\ fError = ""
    /\ PoolIdle

\* The pool is created with max_workers and every task is submitted.
PoolSubmit ==
    /\ fPc = "start"
    /\ fMaxWorkers' = MaxWorkersFor(Cardinality(Tasks))
    /\ IF MaxWorkersFor(Cardinality(Tasks)) <= 0
       THEN /\ fPc' = "raised"
            /\ fError' = "ValueError"
            /\ UNCHANGED poolVars
       ELSE /\ fPc' = "collecting"
            /\ pPending' = Cardinality(Tasks)
            /\ UNCHANGED <<fError, pRunning, pDone>>
    /\ UNCHANGED <<fPrompts, fClients, fUnit, fResults, outsidePool>>

\* ThreadPoolExecutor starts at most max_workers threads; a thread that is
\* not executing a task takes the next submitted one.
PoolTake ==
    /\ fPc = "collecting"
    /\ pPending > 0
    /\ pRunning < fMaxWorkers
    /\ pPending' = pPending - 1
    /\ pRunning' = pRunning + 1
    /\ UNCHANGED <<pDone, fPrompts, fClients, fPc, fMaxWorkers, fUnit, fResults, fError, outsidePool>>

\* A worker's _query_single ends (in a result or an exception).
PoolFinish ==
    /\ fPc = "collecting"
    /\ pRunning > 0
    /\ pRunning' = pRunning - 1
    /\ pDone' = pDone + 1
    /\ UNCHANGED <<pPending, fPrompts, fClients, fPc, fMaxWorkers, fUnit, fResults, fError, outsidePool>>

PoolNext == PoolSubmit \/ PoolTake \/ PoolFinish

-----------------------------------------------------------------------------
(* Prompt resolver: get_or_generate_prompts and generate_prompts           *)

\* Largest count argument, most rows stored initially, longest generator
\* reply (in lines) and number of resolver calls explored.
MaxCount == 3
MaxStored == 3
MaxLines == 3
MaxRuns == 2

\* A line of the generator's reply after strip(): num says that it starts
\* with a digit (a numbering such as "1. "), text is what follows the leading
\* digits, dots and spaces ("" when nothing does; a blank line has num FALSE
\* and text "").
ReplyLines == [num : BOOLEAN, text : PromptTexts \cup {""}]

\* The parsing loop of generate_prompts: a numbered line gives the text
\* after its numbering, or nothing when no other character follows; any
\* other non-blank line is taken as it is.
RECURSIVE ParseReply(_)
ParseReply(lines) ==
    IF lines = << >> THEN << >>
    ELSE LET l == Head(lines)
             rest == ParseReply(Tail(lines))
         IN IF l.num
            THEN (IF l.text # "" THEN <<l.text>> \o rest ELSE rest)
            ELSE (IF l.text # "" THEN <<l.text>> \o rest ELSE rest)

Untruncated(prompts, count) == prompts

\* prompts[:count]
LimitTo(prompts, count) == SubSeq(prompts, 1, Min2(count, Len(prompts)))

\* What generate_prompts returns for a reply.
generate_prompts(count, reply) == LimitTo(ParseReply(reply), count)

SampleWithReplacement(existing, count) ==
    {[k \in 1..count |-> existing[f[k]]] : f \in [1..count -> 1..Len(existing)]}

\* random.sample(existing_prompts, count): count elements at distinct
\* positions of the list, in any order.
RandomSample(existing, count) ==
    {[k \in 1..count |-> existing[f[k]]] :
        f \in {g \in [1..count -> 1..Len(existing)] :
                 \A i, j \in 1..count : i # j => g[i] # g[j]}}

ResolverIdle ==
    /\ rPromptRows = << >>
    /\ rCount = 0
    /\ rPc = "idle"
    /\ rExisting = << >>
    /\ rReturned = << >>
    /\ rGenAsked = << >>
    /\ rGenReply = << >>
    /\ rRuns = 0

ResolverInit ==
    /\ rPromptRows \in SeqsUpTo(PromptTexts, MaxStored)
    /\ rCount \in 0..MaxCount
    /\ rPc = "start"
    /\ rExisting = << >>
    /\ rReturned = << >>
    /\ rGenAsked = << >>
    /\ rGenReply = << >>
    /\ rRuns = 0

\* Cases 1 and 2: the stored prompts suffice.
ResolveFromExisting ==
    /\ rPc = "start"
    /\ Len(rPromptRows) >= rCount
    /\ rExisting' = rPromptRows
    /\ IF Len(rPromptRows) = rCount
       THEN rReturned' = rPromptRows
       ELSE rReturned' \in RandomSample(rPromptRows, rCount)
    /\ rPc' = "returned"
    /\ rRuns' = rRuns + 1
    /\ UNCHANGED <<rPromptRows, rCount, rGenAsked, rGenReply, outsideResolver>>

\* Case 3 with a generator that answers: the delta is generated, stored
\* (create_bulk, commit) when not empty, and returned after the existing ones.
ResolveAndGenerate(reply) ==
    /\ rPc = "start"
    /\ Len(rPromptRows) < rCount
    /\ LET delta == rCount - Len(rPromptRows)
           new_prompts == generate_prompts(delta, reply)
       IN /\ rExisting' = rPromptRows
          /\ rGenAsked' = <<delta>>
          /\ rGenReply' = reply
          /\ rPromptRows' = IF new_prompts # << >> THEN rPromptRows \o new_prompts
                            ELSE rPromptRows
          /\ rReturned' = rPromptRows \o new_prompts
    /\ rPc' = "returned"
    /\ rRuns' = rRuns + 1
    /\ UNCHANGED <<rCount, outsideResolver>>

\* Case 3 with a generator whose query() raises: generate_prompts re-raises.
ResolveGeneratorFails ==
    /\ rPc = "start"
    /\ Len(rPromptRows) < rCount
    /\ rExisting' = rPromptRows
    /\ rGenAsked' = <<rCount - Len(rPromptRows)>>
    /\ rPc' = "raised"
    /\ rRuns' = rRuns + 1
    /\ UNCHANGED <<rPromptRows, rCount, rReturned, rGenReply, outsideResolver>>

\* The next request for the brand, with the prompts_n then configured.
ResolveAgain(n) ==
    /\ rPc \in {"returned", "raised"}
    /\ rRuns < MaxRuns
    /\ rCount' = n
    /\ rPc' = "start"
    /\ rExisting' = << >>
    /\ rReturned' = << >>
    /\ rGenAsked' = << >>
    /\ rGenReply' = << >>
    /\ UNCHANGED <<rPromptRows, rRuns, outsideResolver>>

ResolverNext ==
    \/ ResolveFromExisting
    \/ \E reply \in SeqsUpTo(ReplyLines, MaxLines) : ResolveAndGenerate(reply)
    \/ ResolveGeneratorFails
    \/ \E n \in 0..MaxCount : ResolveAgain(n)

-----------------------------------------------------------------------------
(* Cache gate: check_cache over the metrics table                          *)

Brands == {"b1", "b2"}

\* Last clock value explored.
MaxClock == 1

\* The (brand, provider) pairs metrics are stored for.
MetricPairs == ({"b1"} \X Clients) \cup {<<"b2", "chatgpt">>}

WithinWindow(m) == now - m.updated_at < 1

\* The rows check_cache asks for are the brand's rows "regardless of age":
\* the query has no condition on updated_at and the hours argument is not
\* read anywhere in check_cache.
AnyAge(m) == TRUE

\* MetricsRepository.get_by_brand
get_by_brand(b) == {m \in mTable : m.brand_id = b /\ AnyAge(m)}

MaxOf(S) == CHOOSE x \in S : \A y \in S : x >= y

\* min() over a non-empty collection.
MinOf(S) == CHOOSE x \in S : \A y \in S : x <= y

NoCall == [brand_id |-> "", active |-> {}, outcome |-> "none", metrics |-> {}, computed_at |-> -1]

\* check_cache(db_session, brand_id, active_llm_names, hours, logger): None
\* ("miss") unless every active name has a row; otherwise the metrics of
\* every row of the brand with the oldest updated_at.  min() of no rows
\* raises ValueError.
check_cache(b, active) ==
    LET metrics == get_by_brand(b)
        llm_names == {m.llm_name : m \in metrics}
    IN IF ~(active \subseteq llm_names)
       THEN [outcome |-> "miss", metrics |-> {}, computed_at |-> -1]
       ELSE IF metrics = {}
       THEN [outcome |-> "ValueError", metrics |-> {}, computed_at |-> -1]
       ELSE [outcome |-> "hit", metrics |-> llm_names,
             computed_at |-> MinOf({m.updated_at : m \in metrics})]

CacheIdle ==
    /\ mTable = {}
    /\ now = 0
    /\ cOut = NoCall

\* What the four values of a metric (mention_rate, citations_list,
\* sentiment_score, brand_rank) are computed from: the number of response
\* records they summarise.
MaxResponses == 2
MetricValues == 0..MaxResponses

\* Rows of (brand, provider) in a metrics table.
RowsOf(table, b, l) == {m \in table : m.brand_id = b /\ m.llm_name = l}

NeverFound(table, b, l) == {}

\* query(Metric).filter(brand_id == ..., llm_name == ...): the rows first()
\* picks from.
ExistingMetric(table, b, l) == RowsOf(table, b, l)

\* MetricsRepository.create: a new row; metric_id is fresh (the k-th row of
\* its pair), updated_at defaults to utcnow().
MetricsCreate(table, b, l, v, t) ==
    table \cup {[metric_id |-> <<b, l, Cardinality(RowsOf(table, b, l))>>,
                 brand_id |-> b, llm_name |-> l, value |-> v, updated_at |-> t]}

\* MetricsRepository.upsert: the tables it can leave.  Without a row of the
\* pair one is created; otherwise the row first() returned gets the four
\* values and updated_at = utcnow().
upsert(table, b, l, v, t) ==
    IF ExistingMetric(table, b, l) = {}
    THEN {MetricsCreate(table, b, l, v, t)}
    ELSE {(table \ {m}) \cup {[m EXCEPT !.value = v, !.updated_at = t]} :
             m \in ExistingMetric(table, b, l)}

\* An upsert that is committed (the metrics of a finished computation).
MetricsUpsert(b, l, v) ==
    /\ <<b, l>> \in MetricPairs
    /\ mTable' \in upsert(mTable, b, l, v, now)
    /\ cOut' = NoCall
    /\ UNCHANGED <<now, outsideCache>>

\* Time passes.
Tick ==
    /\ now < MaxClock
    /\ now' = now + 1
    /\ cOut' = NoCall
    /\ UNCHANGED <<mTable, outsideCache>>

CheckCache(b, active) ==
    /\ LET r == check_cache(b, active)
       IN cOut' = [brand_id |-> b, active |-> active, outcome |-> r.outcome,
                   metrics |-> r.metrics, computed_at |-> r.computed_at]
    /\ UNCHANGED <<mTable, now, outsideCache>>

CacheNext ==
    \/ \E b \in Brands, l \in Clients : MetricsUpsert(b, l, 1)
    \/ Tick
    \/ \E b \in Brands, active \in SUBSET Clients : CheckCache(b, active)

-----------------------------------------------------------------------------
(* Response persistence: process_responses with PromptRepository.create,   *)
(* ResponseRepository.create and extract_brands_and_citations, run after   *)
(* the prompt resolver and query_llms_parallel                             *)

\* Prompt rows stored before the run, prompts_n of the run and lines of the
\* generator's reply explored for a run of the stages.
MaxStageRows == 1
MaxStageCount == 2
MaxStageLines == 1

\* The llm_clients maps explored for a run of the stages.
StageClientMaps == {{"chatgpt"}, {"chatgpt", "gemini"}}

\* What a unit of the run does: it answers (its reply parsed), or its client
\* raises.
StageOutcomes == {[kind |-> "ok", parsed |-> TRUE], [kind |-> "LLMTimeoutError", parsed |-> FALSE]}

\* An answer without text: answer = parts[0].strip() of a reply that starts
\* with the JSON_EXTRACTION: marker, or a client that returns "".
BlankAnswer == << >>

\* The order create_llm_clients inserts the clients in, which is the order of
\* llm_clients.keys() and of llm_responses.items().
ClientOrder == <<"chatgpt", "gemini", "grok", "perplexity">>

KeysInOrder(S) == SelectSeq(ClientOrder, LAMBDA l : l \in S)

\* The orders as_completed() can yield n futures in.
Orders(n) == {f \in [1..n -> 1..n] : \A i, j \in 1..n : i # j => f[i] # f[j]}

\* (llm_name, position) of every response, in the order of the two for loops.
RECURSIVE EntriesInOrder(_)
EntriesInOrder(names) ==
    IF names = << >> THEN << >>
    ELSE [j \in 1..Len(fResults[Head(names)]) |-> <<Head(names), j>>]
            \o EntriesInOrder(Tail(names))

\* What extract_brands_and_citations(answer, llm_client) returns: the lists
\* the client's reply to the extraction prompt holds, or two empty lists when
\* that query raises or its reply is not JSON.
extract_brands_and_citations(l, answer, ok) ==
    IF ok THEN <<"extracted", l, answer>> ELSE << >>

\* ResponseRepository.create: the row added to the session.
ResponseCreate(rows, prompt_id, l, answer, lists) ==
    rows \cup {[response_id |-> Cardinality(rows) + 1, prompt_id |-> prompt_id,
                llm_name |-> l, answer |-> answer, lists |-> lists]}

NoSnapshot == [prompts |-> << >>, responses |-> {}]

NoCache == [p \in {} |-> 0]

PersistIdle ==
    /\ respRows = {}
    /\ dbSession = "active"
    /\ sQueries = [k \in {} |-> 0]
    /\ prPc = "idle"
    /\ prTodo = << >>
    /\ prCache = NoCache
    /\ prSnap = NoSnapshot

\* One run of the stages: a brand with at most MaxStageRows stored prompts.
StageInit ==
    /\ rPromptRows \in SeqsUpTo(PromptTexts, MaxStageRows)
    /\ rCount \in 1..MaxStageCount
    /\ rPc = "start"
    /\ rExisting = << >>
    /\ rReturned = << >>
    /\ rGenAsked = << >>
    /\ rGenReply = << >>
    /\ rRuns = 0
    /\ fPrompts = << >>
    /\ fClients \in StageClientMaps
    /\ fPc = "idle"
    /\ fMaxWorkers = 0
    /\ fUnit = << >>
    /\ fResults = << >>
    /\ fError = ""
    /\ PersistIdle

\* query_llms_parallel(prompts, llm_clients, ...) is called with the prompts
\* the resolver returned.
StageCallFanOut ==
    /\ rPc = "returned"
    /\ fPc = "idle"
    /\ fPrompts' = rReturned
    /\ fPc' = "start"
    /\ UNCHANGED <<fClients, fMaxWorkers, fUnit, fResults, fError,
                   clientVars, poolVars, resVars, cacheVars, persistVars, calcVars, unitVars, pipeVars, pureVars,
                   brandVars>>

\* query_llms_parallel as a whole: every task gets its outcome (one
\* client.query() each) and its entry, the entries of a provider in the
\* order their futures completed; without tasks the pool's constructor
\* raises ValueError.
StageFanOutDone ==
    /\ fPc = "start"
    /\ fMaxWorkers' = MaxWorkersFor(Cardinality(Tasks))
    /\ IF MaxWorkersFor(Cardinality(Tasks)) <= 0
       THEN /\ fPc' = "raised"
            /\ fError' = "ValueError"
            /\ fResults' = [l \in fClients |-> << >>]
            /\ UNCHANGED <<fUnit, sQueries>>
       ELSE \E outs \in [Tasks -> StageOutcomes], blank \in SUBSET Tasks,
               order \in Orders(Len(fPrompts)) :
                /\ \A u \in blank : outs[u].kind = "ok"
                /\ fUnit' = [u \in Tasks |-> [st |-> "collected", out |-> outs[u]]]
                /\ fResults' =
                      [l \in fClients |->
                          [j \in 1..Len(fPrompts) |->
                              LET u == <<l, order[j]>>
                              IN IF u \in blank
                                 THEN [ResultEntry(u, outs[u]) EXCEPT !.answer = BlankAnswer]
                                 ELSE ResultEntry(u, outs[u])]]
                /\ sQueries' = [k \in fClients \X PromptTexts |->
                                   Cardinality({u \in Tasks : u[1] = k[1] /\ fPrompts[u[2]] = k[2]})]
                /\ fPc' = "returned"
                /\ UNCHANGED fError
    /\ UNCHANGED <<fPrompts, fClients, respRows, dbSession, prPc, prTodo, prCache, prSnap,
                   clientVars, poolVars, resVars, cacheVars, calcVars, unitVars, pipeVars, pureVars,
                   brandVars>>

\* process_responses(db_session, brand_id, llm_responses, llm_clients,
\* logger) is entered: prompt_cache = {}.
ProcessStart ==
    /\ fPc = "returned"
    /\ prPc = "idle"
    /\ prPc' = "looping"
    /\ prCache' = NoCache
    /\ prTodo' = EntriesInOrder(KeysInOrder(fClients))
    /\ prSnap' = [prompts |-> rPromptRows, responses |-> respRows]
    /\ UNCHANGED <<respRows, dbSession, sQueries, rPromptRows,
                   rCount, rPc, rExisting, rReturned, rGenAsked, rGenReply, rRuns,
                   clientVars, fanVars, poolVars, cacheVars, calcVars, unitVars, pipeVars, pureVars,
                   brandVars>>

\* One iteration of the inner loop.  A failed or blank response is skipped.
\* Otherwise the prompt's row is taken from prompt_cache or created
\* (PromptRepository.create, outside the try), the client is queried once
\* more for the extraction, and the response row is created.  A flush that
\* raises (storing = "raises") is caught by the except clause; it has rolled
\* the session's transaction back, the session refuses further work until
\* rollback() is called, and nothing calls it.
ProcessEntry(extraction_ok, storing) ==
    /\ prPc = "looping"
    /\ prTodo # << >>
    /\ LET l == Head(prTodo)[1]
           e == fResults[l][Head(prTodo)[2]]
           cached == e.prompt \in DOMAIN prCache
           prompt_id == IF cached THEN prCache[e.prompt] ELSE Len(rPromptRows) + 1
           lists == extract_brands_and_citations(l, e.answer, extraction_ok)
       IN IF e.error # NoError \/ e.answer = BlankAnswer
          THEN /\ extraction_ok /\ storing = "stores"
               /\ prTodo' = Tail(prTodo)
               /\ UNCHANGED <<prPc, prCache, rPromptRows, respRows, dbSession, sQueries>>
          ELSE IF ~cached /\ dbSession = "inactive"
          THEN /\ extraction_ok /\ storing = "stores"
               /\ prPc' = "raised"
               /\ UNCHANGED <<prTodo, prCache, rPromptRows, respRows, dbSession, sQueries>>
          ELSE /\ prTodo' = Tail(prTodo)
               /\ prCache' = IF cached THEN prCache ELSE prCache @@ (e.prompt :> prompt_id)
               /\ sQueries' = [sQueries EXCEPT ![<<l, e.prompt>>] = @ + 1]
               /\ IF storing = "raises" \/ dbSession = "inactive"
                  THEN /\ dbSession' = "inactive"
                       /\ rPromptRows' = prSnap.prompts
                       /\ respRows' = prSnap.responses
                  ELSE /\ rPromptRows' = IF cached THEN rPromptRows
                                         ELSE Append(rPromptRows, e.prompt)
                       /\ respRows' = ResponseCreate(respRows, prompt_id, l, e.answer, lists)
                       /\ UNCHANGED dbSession
               /\ UNCHANGED prPc
    /\ UNCHANGED <<prSnap, rCount, rPc, rExisting, rReturned, rGenAsked, rGenReply, rRuns,
                   clientVars, fanVars, poolVars, cacheVars, calcVars, unitVars, pipeVars, pureVars,
                   brandVars>>

\* db_session.commit() after the loops.
ProcessCommit ==
    /\ prPc = "looping"
    /\ prTodo = << >>
    /\ prPc' = IF dbSession = "active" THEN "returned" ELSE "raised"
    /\ UNCHANGED <<respRows, dbSession, sQueries, prTodo, prCache, prSnap,
                   clientVars, fanVars, poolVars, resVars, cacheVars, calcVars, unitVars, pipeVars, pureVars,
                   brandVars>>

StageNext ==
    \/ ResolveFromExisting
    \/ \E reply \in SeqsUpTo(ReplyLines, MaxStageLines) : ResolveAndGenerate(reply)
    \/ ResolveGeneratorFails
    \/ StageCallFanOut
    \/ StageFanOutDone
    \/ ProcessStart
    \/ \E x \in BOOLEAN, s \in {"stores", "raises"} : ProcessEntry(x, s)
    \/ ProcessCommit

-----------------------------------------------------------------------------
(* Metrics calculator: calculate_and_store_metrics                         *)

\* calculate_and_store_metrics calls explored, and the longest llm_names.
MaxCalcRuns == 2
MaxNames == 2

\* The brand whose prompts rPromptRows holds: respRows are responses to
\* them, and no other brand has responses.
PipelineBrand == "b1"

\* ResponseRepository.get_by_brand_and_llm: responses joined to the
\* brand's prompts, of one provider.
get_by_brand_and_llm(b, l) ==
    IF b = PipelineBrand THEN {r \in respRows : r.llm_name = l} ELSE {}

NeverEmpty(responses) == FALSE

\* `if not responses`
NoResponses(responses) == responses = {}

\* The four stored values, computed from the provider's responses.
MetricsOf(responses) == Cardinality(responses)

\* The failure marker {"error": ..., "status": "failed"}.
FailureMarker(error) == [status |-> "failed", error |-> error, value |-> 0]

\* The metrics dict of a provider.
MetricsEntry(v) == [status |-> "ok", error |-> "", value |-> v]

NoResult == [l \in {} |-> 0]

\* The provider of the current iteration.
CurrentName == xNames[xDone + 1]

CalcIdle ==
    /\ xPc = "idle"
    /\ xBrand = ""
    /\ xNames = << >>
    /\ xDone = 0
    /\ xResult = NoResult
    /\ xUpserted = NoResult
    /\ xTable = {}
    /\ xBefore = {}
    /\ xRuns = 0

\* A pipeline run stores a response of provider l to the brand's prompt
\* (ResponseRepository.create, committed by process_responses).
StoreResponse(l) ==
    /\ xPc # "looping"
    /\ Cardinality(respRows) < MaxResponses
    /\ respRows' = ResponseCreate(respRows, 1, l, AnswerOf(l, rPromptRows[1]), << >>)
    /\ UNCHANGED <<dbSession, sQueries, prPc, prTodo, prCache, prSnap,
                   clientVars, fanVars, poolVars, resVars, cacheVars, calcVars, unitVars, pipeVars, pureVars,
                   brandVars>>

\* calculate_and_store_metrics(db_session, brand_id, ..., llm_names, logger)
\* is entered in a request's own session: metrics_result = {}.
CalcStart(b, names) ==
    /\ xPc # "looping"
    /\ xRuns < MaxCalcRuns
    /\ xPc' = "looping"
    /\ xBrand' = b
    /\ xNames' = names
    /\ xDone' = 0
    /\ xResult' = NoResult
    /\ xUpserted' = NoResult
    /\ xTable' = mTable
    /\ xBefore' = mTable
    /\ xRuns' = xRuns + 1
    /\ dbSession' = "active"
    /\ UNCHANGED <<respRows, sQueries, prPc, prTodo, prCache, prSnap,
                   clientVars, fanVars, poolVars, resVars, cacheVars, unitVars, pipeVars, pureVars,
                   brandVars>>

\* One iteration of the loop over llm_names; raises says what raises in the
\* try body ("compute": one of the calculate_* functions; "upsert": the
\* flush of MetricsRepository.upsert).  A provider without responses gets
\* the failure marker; so does one whose iteration raises.  A flush that
\* raises has rolled the session's transaction back, and the session refuses
\* further work (the next query included) until rollback() is called, which
\* the except clause does not do.
CalcProvider(raises) ==
    /\ xPc = "looping"
    /\ xDone < Len(xNames)
    /\ LET l == CurrentName
           responses == get_by_brand_and_llm(xBrand, l)
       IN IF dbSession = "inactive"
          THEN /\ raises = "nothing"
               /\ xResult' = xResult @@ (l :> FailureMarker("PendingRollbackError"))
               /\ UNCHANGED <<xTable, xUpserted, dbSession>>
          ELSE IF NoResponses(responses)
          THEN /\ raises = "nothing"
               /\ xResult' = xResult @@ (l :> FailureMarker("No responses available"))
               /\ UNCHANGED <<xTable, xUpserted, dbSession>>
          ELSE IF raises = "compute"
          THEN /\ xResult' = xResult @@ (l :> FailureMarker("compute"))
               /\ UNCHANGED <<xTable, xUpserted, dbSession>>
          ELSE IF raises = "upsert"
          THEN /\ xResult' = xResult @@ (l :> FailureMarker("upsert"))
               /\ xTable' = mTable
               /\ dbSession' = "inactive"
               /\ UNCHANGED xUpserted
          ELSE /\ xTable' \in upsert(xTable, xBrand, l, MetricsOf(responses), now)
               /\ xResult' = xResult @@ (l :> MetricsEntry(MetricsOf(responses)))
               /\ xUpserted' = xUpserted @@ (l :> now)
               /\ UNCHANGED dbSession
    /\ xDone' = xDone + 1
    /\ UNCHANGED <<xPc, xBrand, xNames, xBefore, xRuns, mTable, now, cOut,
                   respRows, sQueries, prPc, prTodo, prCache, prSnap,
                   clientVars, fanVars, poolVars, resVars, unitVars, pipeVars, pureVars, brandVars>>

\* After the loop: db_session.commit(), then the ranking over all responses
\* of the brand, and the return of (metrics_result, all_brands_ranking).
CalcFinish ==
    /\ xPc = "looping"
    /\ xDone = Len(xNames)
    /\ IF dbSession = "active"
       THEN /\ mTable' = xTable
            /\ xPc' = "returned"
       ELSE /\ xPc' = "raised"
            /\ UNCHANGED mTable
    /\ cOut' = NoCall
    /\ UNCHANGED <<xBrand, xNames, xDone, xResult, xUpserted, xTable, xBefore, xRuns, now,
                   persistVars, clientVars, fanVars, poolVars, resVars, unitVars, pipeVars, pureVars,
                   brandVars>>

\* llm_names is list(llm_clients.keys()).
NameLists == {KeysInOrder(S) : S \in {T \in SUBSET Clients : Cardinality(T) <= MaxNames}}

CalcNext ==
    \/ \E l \in Clients : StoreResponse(l)
    \/ \E b \in Brands, names \in NameLists : CalcStart(b, names)
    \/ \E r \in {"nothing", "compute", "upsert"} : CalcProvider(r)
    \/ CalcFinish
    \/ Tick

DirtyRead(committed, flushed) == flushed

\* What the database holds for everyone but the session that flushed: the
\* committed rows.  Rows that MetricsRepository.upsert only flushed become
\* visible at db_session.commit() of line 106.
Visible(committed, flushed) == committed

\* The process is interrupted inside the loop, before db_session.commit():
\* the session's transaction is never committed and the database rolls it
\* back.
Interrupt ==
    /\ xPc = "looping"
    /\ xPc' = "interrupted"
    /\ mTable' = Visible(mTable, xTable)
    /\ xTable' = Visible(mTable, xTable)
    /\ cOut' = NoCall
    /\ UNCHANGED <<xBrand, xNames, xDone, xResult, xUpserted, xBefore, xRuns, now,
                   persistVars, clientVars, fanVars, poolVars, resVars, unitVars, pipeVars,
                   pureVars, brandVars>>

InterruptNext ==
    \/ \E l \in Clients : StoreResponse(l)
    \/ \E b \in Brands, names \in NameLists : CalcStart(b, names)
    \/ \E r \in {"nothing", "compute", "upsert"} : CalcProvider(r)
    \/ CalcFinish
    \/ Interrupt

-----------------------------------------------------------------------------
(* One unit of the fan-out: _query_single and its parsing of the reply     *)

\* A provider's reply as _query_single's parsing sees it: whether it holds
\* the JSON_EXTRACTION: marker, what json.loads makes of the text left once
\* fences are stripped and the outermost braces cut out, and what the
\* object holds under "brands" and "citations".
ReplyShapes ==
    [marker : BOOLEAN,
     json : {"object", "array", "invalid"},
     brands : {"list", "null", "absent"},
     citations : {"list", "null", "absent"}]

\* What the try body raises for a reply ("" when it returns): json.loads
\* raises JSONDecodeError, a JSON value that is no object has no get()
\* (AttributeError), and a null under a key cannot be iterated (TypeError).
ParseRaises(reply) ==
    IF reply.json = "invalid" THEN "JSONDecodeError"
    ELSE IF reply.json = "array" THEN "AttributeError"
    ELSE IF reply.brands = "null" \/ reply.citations = "null" THEN "TypeError"
    ELSE ""

OnlyDecodeErrors == {"JSONDecodeError"}

\* except Exception as e: the classes the fallback catches.
ParseFallbackCatches == {"Exception"}

\* What _query_single(client, prompt, ...) does with the client's outcome: a
\* client exception passes through (the query is outside the try); a reply
\* gives (answer, brands_clean, citations_clean), or (response, [], []) when
\* the parsing raised something the fallback catches.
query_single(c, p, outcome) ==
    IF outcome.raises # ""
    THEN [raised |-> outcome.raises, answer |-> << >>, brands_list |-> << >>, citation_list |-> << >>]
    ELSE LET e == ParseRaises(outcome.reply)
         IN IF e = ""
            THEN [raised |-> "",
                  answer |-> IF outcome.reply.marker THEN <<"before marker", c, p>>
                             ELSE <<"response", c, p>>,
                  brands_list |-> IF outcome.reply.brands = "list"
                                  THEN BrandsOf(c, p) ELSE << >>,
                  citation_list |-> IF outcome.reply.citations = "list"
                                    THEN CitationsOf(c, p) ELSE << >>]
            ELSE IF \E cls \in ParseFallbackCatches : IsA(e, cls)
            THEN [raised |-> "", answer |-> <<"response", c, p>>,
                  brands_list |-> << >>, citation_list |-> << >>]
            ELSE [raised |-> e, answer |-> << >>, brands_list |-> << >>, citation_list |-> << >>]

\* What client.query() can do for a unit.
ClientOutcomes ==
    {[raises |-> "", reply |-> r] : r \in ReplyShapes}
        \cup {[raises |-> k, reply |-> [marker |-> FALSE, json |-> "invalid",
                                        brands |-> "absent", citations |-> "absent"]] :
                 k \in LLMKinds}

\* The error field query_llms_parallel gives the unit's entry.
UnitError(c, r) ==
    IF r.raised = "" THEN NoError
    ELSE <<FanHandlers[FirstHandler(FanHandlers, 1, r.raised)].prefix, r.raised, c>>

NoUnit == [client |-> "", prompt |-> "", outcome |-> [raises |-> "", reply |-> << >>],
           result |-> << >>, error |-> NoError]

UnitIdle == uCall = NoUnit

\* A worker runs _query_single for one task and the collector files it.
QuerySingle(c, p, outcome) ==
    /\ uCall' = [client |-> c, prompt |-> p, outcome |-> outcome,
                 result |-> query_single(c, p, outcome),
                 error |-> UnitError(c, query_single(c, p, outcome))]
    /\ UNCHANGED <<clientVars, fanVars, poolVars, resVars, cacheVars, persistVars, calcVars,
                   pipeVars, pureVars, brandVars>>

UnitNext == \E c \in Clients, p \in PromptTexts, o \in ClientOutcomes : QuerySingle(c, p, o)

-----------------------------------------------------------------------------
(* The orchestrator: get_or_compute_metrics                                *)

\* The parameters check_cache and process_responses declare (none has a
\* default), and the positional arguments get_or_compute_metrics passes.
check_cache_parameters == <<"db_session", "brand_id", "active_llm_names", "hours", "logger">>
check_cache_arguments == <<"db_session", "brand.brand_id", "24", "logger">>
process_responses_parameters == <<"db_session", "brand_id", "llm_responses", "llm_clients", "logger">>
process_responses_arguments == <<"db_session", "brand.brand_id", "llm_responses", "logger">>

\* Python binds positional arguments to parameters one to one; a parameter
\* without default that gets no argument makes the call raise TypeError
\* before the function's body runs.
Binds(parameters, arguments) == Len(arguments) = Len(parameters)

\* The providers that have a metrics row of the brand.
StoredProviders(b) == {m.llm_name : m \in get_by_brand(b)}

\* The client picked for prompt generation ("" when there is none).
prompt_generator(clients) ==
    IF "chatgpt" \in clients THEN "chatgpt"
    ELSE IF clients # {} THEN Head(KeysInOrder(clients))
    ELSE ""

NoRequest ==
    [website |-> "", brand |-> "", clients |-> {}, stored |-> {}, raised |-> "", at |-> "",
     cached |-> "", generator |-> "", stages |-> << >>, queried |-> {}, profiles |-> 0]

PipelineIdle ==
    /\ gBrands = {}
    /\ gProfiles = 0
    /\ gCall = NoRequest

\* What a request does from the cache check on.  The call of check_cache has
\* to bind first; a hit is enriched and aggregated from stored rows; a miss
\* picks the prompt generator and runs the stages in order, each inside its
\* Timer, the call of process_responses having to bind as well; then the
\* TimeProfile row is added and committed.
RequestOutcome(w, clients) ==
    LET begun == [NoRequest EXCEPT !.website = w, !.clients = clients,
                                   !.stored = StoredProviders(w)]
        gate == check_cache(w, clients)
    IN IF ~Binds(check_cache_parameters, check_cache_arguments)
       THEN [begun EXCEPT !.raised = "TypeError", !.at = "check_cache"]
       ELSE IF gate.outcome = "ValueError"
       THEN [begun EXCEPT !.raised = "ValueError", !.at = "check_cache"]
       ELSE IF gate.outcome = "hit"
       THEN [begun EXCEPT !.cached = "true", !.stages = <<"aggregate">>]
       ELSE IF clients = {}
       THEN [begun EXCEPT !.raised = "ValueError", !.at = "prompt_generator"]
       ELSE IF ~Binds(process_responses_parameters, process_responses_arguments)
       THEN [begun EXCEPT !.raised = "TypeError", !.at = "process_responses",
                          !.generator = prompt_generator(clients),
                          !.stages = <<"resolve", "query">>,
                          !.queried = clients]
       ELSE [begun EXCEPT !.cached = "false",
                          !.generator = prompt_generator(clients),
                          !.stages = <<"resolve", "query", "persist", "calculate", "aggregate">>,
                          !.queried = clients,
                          !.profiles = 1]

\* get_or_compute_metrics(website, db_session, llm_clients, settings,
\* logger): the brand is fetched ("found") or created and committed, then
\* the request runs from the cache check on.
GetOrComputeMetrics(w, clients) ==
    /\ gBrands' = gBrands \cup {w}
    /\ gCall' = [RequestOutcome(w, clients) EXCEPT
                    !.brand = IF w \in gBrands THEN "found" ELSE "created"]
    /\ gProfiles' = gProfiles + RequestOutcome(w, clients).profiles
    /\ UNCHANGED <<clientVars, fanVars, poolVars, resVars, cacheVars, persistVars, calcVars, unitVars,
                   pureVars, brandVars>>

PipelineNext ==
    \/ \E w \in Brands, clients \in SUBSET Clients : GetOrComputeMetrics(w, clients)
    \/ \E b \in Brands, l \in Clients : MetricsUpsert(b, l, 1)
    \/ Tick

-----------------------------------------------------------------------------
(* Aggregation: aggregate_metrics_across_llms.  Rates are held in           *)
(* thousandths, sentiment scores in tenths, ranks in hundredths.            *)

\* Python's None where a number can stand.
None == -1

RECURSIVE SumSeq(_)
SumSeq(s) == IF s = << >> THEN 0 ELSE Head(s) + SumSeq(Tail(s))

\* round(num / den, n) on values held in units of 10^-n: the nearest whole
\* unit, the even one when num / den lies exactly half way.
RoundHalfEven(num, den) ==
    LET q == num \div den
        r == num % den
    IN IF 2 * r > den \/ (2 * r = den /\ q % 2 = 1) THEN q + 1 ELSE q

\* A double x with 1 <= x < 32 is a whole multiple of 2^-52.  It is held as
\* that multiple, in three limbs <<l0, l1, l2>> of 20 bits, least first.
LimbBase == 1048576

\* 2^52 is TwoTo12 * LimbBase^2, 2^53 is TwoTo13 * LimbBase^2.
TwoTo12 == 4096
TwoTo13 == 8192

Carry(a) ==
    LET t1 == a[2] + (a[1] \div LimbBase)
    IN <<a[1] % LimbBase, t1 % LimbBase, a[3] + (t1 \div LimbBase)>>

LimbAdd(a, b) == Carry(<<a[1] + b[1], a[2] + b[2], a[3] + b[3]>>)

LimbTimes(a, k) == Carry(<<a[1] * k, a[2] * k, a[3] * k>>)

\* Quotient and remainder of a by a small d.
LimbDivide(a, d) ==
    LET t1 == (a[3] % d) * LimbBase + a[2]
        t0 == (t1 % d) * LimbBase + a[1]
    IN [q |-> <<t0 \div d, t1 \div d, a[3] \div d>>, r |-> t0 % d]

\* The spacing of the doubles around a, in multiples of 2^-52: 53 bits of
\* significand.
Spacing(a) ==
    IF a[3] < TwoTo13 THEN 1
    ELSE IF a[3] < 2 * TwoTo13 THEN 2
    ELSE IF a[3] < 4 * TwoTo13 THEN 4
    ELSE IF a[3] < 8 * TwoTo13 THEN 8
    ELSE 16

\* The double nearest to a / d (ties to the even significand): the result
\* of one IEEE 754 operation whose exact value is a / d.
NearestDouble(a, d) ==
    LET u == Spacing(LimbDivide(a, d).q)
        by == LimbDivide(a, d * u)
        up == 2 * by.r > d * u \/ (2 * by.r = d * u /\ by.q[1] % 2 = 1)
    IN LimbTimes(IF up THEN LimbAdd(by.q, <<1, 0, 0>>) ELSE by.q, u)

\* The float a rank of h hundredths is: round(avg_rank, 2) returns the
\* double nearest to h / 100.
FloatOfHundredths(h) == NearestDouble(<<0, 0, h * TwoTo12>>, 100)

FloatAdd(a, b) == NearestDouble(LimbAdd(a, b), 1)

FloatDivide(a, n) == NearestDouble(a, n)

\* sum(brand_ranks): 0 + x1 is x1, then one float addition per element.
RECURSIVE FloatSum(_, _)
FloatSum(s, n) ==
    IF n = 1 THEN s[1] ELSE FloatAdd(FloatSum(s, n - 1), s[n])

\* math.ceil of a double.
Ceil(a) ==
    LET whole == a[3] \div TwoTo12
    IN IF a[3] % TwoTo12 # 0 \/ a[2] # 0 \/ a[1] # 0 THEN whole + 1 ELSE whole

\* math.ceil(sum(brand_ranks) / len(brand_ranks))
CeilOfMean(ranks) ==
    Ceil(FloatDivide(FloatSum([i \in 1..Len(ranks) |-> FloatOfHundredths(ranks[i])], Len(ranks)),
                     Len(ranks)))

\* "error" in metrics
HasError(metrics) == "error" \in DOMAIN metrics

\* metrics.get(key, default)
Get(metrics, key, default) == IF key \in DOMAIN metrics THEN metrics[key] ELSE default

\* The keys of per_llm_metrics in the dict's order.
LLMsOf(per_llm_metrics) == KeysInOrder(DOMAIN per_llm_metrics)

AllLLMs(per_llm_metrics) == DOMAIN per_llm_metrics

\* successful_llms
successful_llms(per_llm_metrics) ==
    {l \in DOMAIN per_llm_metrics : ~HasError(per_llm_metrics[l])}

\* The values one metric contributes to its average: those of the
\* providers without "error" whose value is not None, in the dict's order.
Collected(per_llm_metrics, key) ==
    LET has(l) == /\ ~HasError(per_llm_metrics[l])
                  /\ Get(per_llm_metrics[l], key, None) # None
        names == SelectSeq(LLMsOf(per_llm_metrics), has)
    IN [i \in 1..Len(names) |-> per_llm_metrics[names[i]][key]]

AverageOverAll(values, providers) ==
    IF values # << >> THEN RoundHalfEven(SumSeq(values), providers) ELSE 0

\* round(sum(values) / len(values), n) if values else the default zero
Average(values, providers) ==
    IF values # << >> THEN RoundHalfEven(SumSeq(values), Len(values)) ELSE 0

\* The neutral sentiment (50.0) returned when no provider has a score.
NeutralSentiment == 500

NoArgs == [fn |-> ""]
NoOut == [returned |-> FALSE]

PureIdle ==
    /\ kArgs = NoArgs
    /\ kOut = NoOut


-----------------------------------------------------------------------------
(* Per-provider metrics: normalize_brand_name, calculate_mention_rate and   *)
(* calculate_brand_rank.  A name is the sequence of its characters; a list  *)
(* of responses is held as runs of equal responses, each with the number    *)
(* of times it occurs.                                                      *)

Letters == {"s", "S", "x"}
Whitespace == {" "}
\* The characters of the class [(tm)(R)(C)], each held as one symbol.
TrademarkSymbols == {"tm", "reg", "copy"}
TrailingPunctuation == {".", ",", ";", ":", "!", "?"}

\* str.lower() on one character.
LowerChar(c) == IF c = "S" THEN "s" ELSE c

Verbatim(name) == name

\* brand.lower()
Lower(name) == [i \in 1..Len(name) |-> LowerChar(name[i])]

\* re.sub(r"[...]", "", normalized)
Without(name, symbols) == SelectSeq(name, LAMBDA c : c \notin symbols)

\* " ".join(normalized.split()): the words with one blank between them.
RECURSIVE JoinSplit(_)
JoinSplit(name) ==
    IF name = << >> THEN << >>
    ELSE IF Head(name) \in Whitespace
         THEN (IF Tail(name) = << >> \/ Head(Tail(name)) \in Whitespace
               THEN JoinSplit(Tail(name))
               ELSE <<" ">> \o JoinSplit(Tail(name)))
         ELSE <<Head(name)>> \o JoinSplit(Tail(name))

LStrip(name, symbols) ==
    IF \A i \in 1..Len(name) : name[i] \in symbols THEN << >>
    ELSE LET first == CHOOSE i \in 1..Len(name) :
                          /\ name[i] \notin symbols
                          /\ \A j \in 1..(i - 1) : name[j] \in symbols
         IN SubSeq(name, first, Len(name))

\* str.rstrip(symbols)
RStrip(name, symbols) ==
    IF \A i \in 1..Len(name) : name[i] \in symbols THEN << >>
    ELSE LET last == CHOOSE i \in 1..Len(name) :
                         /\ name[i] \notin symbols
                         /\ \A j \in (i + 1)..Len(name) : name[j] \in symbols
         IN SubSeq(name, 1, last)

\* str.strip()
Strip(name) == LStrip(RStrip(name, Whitespace), Whitespace)

\* " ".join(...) of the words, a leading blank of the scan removed.
Collapse(name) == LStrip(JoinSplit(name), Whitespace)

normalize_brand_name(brand) ==
    Strip(RStrip(Collapse(Without(Lower(brand), TrademarkSymbols)), TrailingPunctuation))

\* [normalize_brand_name(b) for b in response.brands_list]
NormalizedList(brands_list) ==
    [i \in 1..Len(brands_list) |-> normalize_brand_name(brands_list[i])]

\* normalized_brand in normalized_brands
Mentions(brand_name, response) ==
    \E i \in 1..Len(response.brands_list) :
        NormalizedList(response.brands_list)[i] = normalize_brand_name(brand_name)

\* normalized_brands.index(normalized_brand) + 1
PositionOf(brand_name, response) ==
    CHOOSE i \in 1..Len(response.brands_list) :
        /\ NormalizedList(response.brands_list)[i] = normalize_brand_name(brand_name)
        /\ \A j \in 1..(i - 1) :
               NormalizedList(response.brands_list)[j] # normalize_brand_name(brand_name)

\* len(responses)
RECURSIVE CountOf(_)
CountOf(responses) ==
    IF responses = << >> THEN 0 ELSE Head(responses).times + CountOf(Tail(responses))

\* The responses the loop finds the brand in.
Mentioning(brand_name, responses) ==
    SelectSeq(responses, LAMBDA r : Mentions(brand_name, r))

\* sum(ranks)
RECURSIVE SumOfRanks(_, _)
SumOfRanks(brand_name, responses) ==
    IF responses = << >> THEN 0
    ELSE PositionOf(brand_name, Head(responses)) * Head(responses).times
            + SumOfRanks(brand_name, Tail(responses))

RoundedUp(num, den) == (num + den - 1) \div den

\* round(x, n) as the functions of this section use it.
Rounded(num, den) == RoundHalfEven(num, den)

\* calculate_mention_rate, in thousandths.
calculate_mention_rate(brand_name, responses) ==
    LET mentions == CountOf(Mentioning(brand_name, responses))
    IN IF CountOf(responses) > 0
       THEN Rounded(1000 * mentions, CountOf(responses))
       ELSE 0

\* calculate_brand_rank, in hundredths.
calculate_brand_rank(brand_name, responses) ==
    LET ranked == Mentioning(brand_name, responses)
    IN IF ranked = << >> THEN None
       ELSE Rounded(100 * SumOfRanks(brand_name, ranked), CountOf(ranked))

\* The inputs explored: every name of up to MaxNameLen characters against
\* a few lists of responses, and a few names against every list of up to
\* MaxRecords runs, a run repeating its response once or MaxRepeat times.
MaxNameLen == 3
MaxRecords == 3
MaxRepeat == 2000
NameChars == {"s", "S", " ", "tm", "."}
Names == SeqsUpTo(NameChars, MaxNameLen)
SomeNames == {<<"s">>, <<"S", "tm">>, <<"x">>}
BrandLists ==
    {<< >>, <<<<"s">>>>, <<<<"x">>>>, <<<<"x">>, <<"S", "tm">>>>,
     <<<<" ", "s">>, <<"s">>>>, <<<<"x">>, <<"x">>, <<"s", ".">>>>}
Once(brands_list) == [brands_list |-> brands_list, citation_list |-> << >>, times |-> 1]
SomeResponses ==
    {<< >>} \cup {<<Once(a)>> : a \in BrandLists}
            \cup {<<Once(a), Once(b)>> : a \in BrandLists, b \in BrandLists}
RunLists == {<< >>, <<<<"s">>>>, <<<<"x">>, <<"S", "tm">>>>, <<<<"x">>>>}
Runs == [brands_list : RunLists, citation_list : {<< >>}, times : {1, MaxRepeat}]
RateInputs ==
    (Names \X SomeResponses) \cup (SomeNames \X SeqsUpTo(Runs, MaxRecords))

MentionRate ==
    /\ kArgs.fn = "calculate_mention_rate"
    /\ kOut = NoOut
    /\ kOut' = [returned |-> TRUE,
                value |-> calculate_mention_rate(kArgs.brand_name, kArgs.responses)]
    /\ UNCHANGED <<kArgs, clientVars, fanVars, poolVars, resVars, cacheVars, persistVars,
                   calcVars, unitVars, pipeVars, brandVars>>

BrandRank ==
    /\ kArgs.fn = "calculate_brand_rank"
    /\ kOut = NoOut
    /\ kOut' = [returned |-> TRUE,
                value |-> calculate_brand_rank(kArgs.brand_name, kArgs.responses)]
    /\ UNCHANGED <<kArgs, clientVars, fanVars, poolVars, resVars, cacheVars, persistVars,
                   calcVars, unitVars, pipeVars, brandVars>>

RatesNext ==
    \/ MentionRate
    \/ BrandRank

-----------------------------------------------------------------------------
(* The ranking table: calculate_all_brands_ranking.  The dict returned is   *)
(* held as the sequence of its items.                                       *)

\* all_brands
all_brands(all_responses) ==
    UNION {{NormalizedList(all_responses[i].brands_list)[j] :
               j \in 1..Len(all_responses[i].brands_list)} :
           i \in 1..Len(all_responses)}

\* brand in normalized_brands
Lists(brand, response) ==
    \E j \in 1..Len(response.brands_list) : NormalizedList(response.brands_list)[j] = brand

LastIndexOf(brand, response) ==
    CHOOSE j \in 1..Len(response.brands_list) :
        /\ NormalizedList(response.brands_list)[j] = brand
        /\ \A k \in (j + 1)..Len(response.brands_list) :
               NormalizedList(response.brands_list)[k] # brand

\* normalized_brands.index(brand) + 1
IndexOf(brand, response) ==
    CHOOSE j \in 1..Len(response.brands_list) :
        /\ NormalizedList(response.brands_list)[j] = brand
        /\ \A k \in 1..(j - 1) : NormalizedList(response.brands_list)[k] # brand

\* sum(ranks) for one brand
RECURSIVE SumOfIndexes(_, _)
SumOfIndexes(brand, responses) ==
    IF responses = << >> THEN 0
    ELSE IndexOf(brand, Head(responses)) * Head(responses).times
            + SumOfIndexes(brand, Tail(responses))

\* rankings[brand], in hundredths
rankings(brand, all_responses) ==
    LET listing == SelectSeq(all_responses, LAMBDA r : Lists(brand, r))
    IN Rounded(100 * SumOfIndexes(brand, listing), CountOf(listing))

\* sorted(rankings.items(), key=lambda x: x[1]): every order of the brands
\* that agrees with the key (the brands enter rankings in the iteration
\* order of a set).
SortedBrands(all_responses) ==
    LET B == all_brands(all_responses)
        n == Cardinality(B)
    IN {s \in [1..n -> B] :
           /\ \A i, j \in 1..n : i # j => s[i] # s[j]
           /\ \A i \in 1..(n - 1) :
                  rankings(s[i], all_responses) <= rankings(s[i + 1], all_responses)}

\* calculate_all_brands_ranking: the tables it can return.
calculate_all_brands_ranking(all_responses) ==
    {[i \in 1..Len(s) |-> [brand |-> s[i], rank |-> rankings(s[i], all_responses)]] :
     s \in SortedBrands(all_responses)}

\* The mention lists explored, "S" standing for Samsung, "x" for Apple and
\* "xs" for Google.
Samsung == <<"S">>
Apple == <<"x">>
Google == <<"x", "s">>
RankedLists ==
    {<< >>,
     <<Samsung, Apple, Google>>,
     <<Samsung, Google>>,
     <<Apple, Google>>,
     <<Apple, <<"s", "tm">>, Apple, Samsung>>,
     <<<<"s", ".", " ", ".">>, Google>>}
RankingInputs == SeqsUpTo({Once(a) : a \in RankedLists}, MaxRecords)

AllBrandsRanking ==
    /\ kArgs.fn = "calculate_all_brands_ranking"
    /\ kOut = NoOut
    /\ \E sorted_rankings \in calculate_all_brands_ranking(kArgs.all_responses) :
           kOut' = [returned |-> TRUE, value |-> sorted_rankings]
    /\ UNCHANGED <<kArgs, clientVars, fanVars, poolVars, resVars, cacheVars, persistVars,
                   calcVars, unitVars, pipeVars, brandVars>>

RankingNext == AllBrandsRanking
-----------------------------------------------------------------------------
(* Aggregation: the dict aggregate_metrics_across_llms returns, with its    *)
(* ranking overview.                                                        *)

\* The number of entries of the table the overview lists.
TopBrands == 7

all_items(all_brands_ranking) == all_brands_ranking

\* list(all_brands_ranking.items())[:7]
top_7_brands(all_brands_ranking) ==
    SubSeq(all_brands_ranking, 1, Min2(TopBrands, Len(all_brands_ranking)))

\* all_brands_ranking.get(key)
RankingGet(all_brands_ranking, key) ==
    IF \E i \in 1..Len(all_brands_ranking) : all_brands_ranking[i].brand = key
    THEN LET i == CHOOSE i \in 1..Len(all_brands_ranking) : all_brands_ranking[i].brand = key
         IN all_brands_ranking[i].rank
    ELSE None

aggregate_metrics_across_llms(per_llm_metrics, all_brands_ranking, brand_name) ==
    LET n == Cardinality(DOMAIN per_llm_metrics)
        failed(l) == HasError(per_llm_metrics[l])
        mention_rates == Collected(per_llm_metrics, "mentionRate")
        citation_rates == Collected(per_llm_metrics, "brandDomainCitationRate")
        sentiment_scores == Collected(per_llm_metrics, "sentimentScore")
        brand_ranks == Collected(per_llm_metrics, "brandRank")
    IN IF successful_llms(per_llm_metrics) = {}
       THEN [error |-> "All LLM requests failed"]
       ELSE [averageMentionRate |-> Average(mention_rates, n),
             citations |-> Average(citation_rates, n),
             averageSentiment |-> IF sentiment_scores # << >>
                                  THEN Average(sentiment_scores, n)
                                  ELSE NeutralSentiment,
             averageRanking |-> IF brand_ranks # << >> THEN CeilOfMean(brand_ranks) ELSE None,
             mentionRateByLLM |->
                 [l \in DOMAIN per_llm_metrics |->
                     IF failed(l) THEN 0 ELSE Get(per_llm_metrics[l], "mentionRate", 0)],
             citationsByLLM |->
                 [l \in DOMAIN per_llm_metrics |->
                     IF failed(l) THEN 0
                     ELSE Get(per_llm_metrics[l], "brandDomainCitationRate", 0)],
             citationOverview |->
                 [l \in DOMAIN per_llm_metrics |->
                     IF failed(l) THEN << >> ELSE Get(per_llm_metrics[l], "citationsList", << >>)],
             rankByLLMs |->
                 [l \in {x \in DOMAIN per_llm_metrics :
                            ~failed(x) /\ Get(per_llm_metrics[x], "brandRank", None) # None} |->
                     per_llm_metrics[l].brandRank],
             rankingOverview |->
                 [topBrands |-> top_7_brands(all_brands_ranking),
                  currentBrand |->
                      [brand |-> brand_name,
                       rank |-> RankingGet(all_brands_ranking,
                                           normalize_brand_name(brand_name))]]]

\* The providers of the dicts explored and the metrics dicts a provider can
\* have: a failure marker, or the four stored metrics with or without the
\* brand domain citation rate.  The ranking tables explored are the first
\* entries of a table of nine brands, in rank order or not, with or without
\* the entry of "s".
AggregatedLLMs == {"chatgpt", "gemini", "grok"}
RankValues == {None, 110, 120, 370}
MentionRates == {600, 800}
SentimentScores == {750}
CitationLists == {<< >>, <<[url |-> "https://samsung.com", percentage |-> 800]>>}

FailedMetrics == [error |-> "No responses available", status |-> "failed"]

StoredMetrics ==
    [brandRank : RankValues, citationsList : CitationLists,
     mentionRate : MentionRates, sentimentScore : SentimentScores]

EnrichedMetrics ==
    [brandRank : RankValues, citationsList : CitationLists,
     mentionRate : MentionRates, sentimentScore : SentimentScores,
     brandDomainCitationRate : {500}]

ProviderMetrics == {FailedMetrics} \cup StoredMetrics \cup EnrichedMetrics

NineBrands ==
    <<[brand |-> <<"x">>, rank |-> 100], [brand |-> <<"x", "s">>, rank |-> 150],
      [brand |-> <<"s">>, rank |-> 160], [brand |-> <<"x", "x">>, rank |-> 200],
      [brand |-> <<"s", "x">>, rank |-> 233], [brand |-> <<"s", "s">>, rank |-> 250],
      [brand |-> <<"x", " ", "x">>, rank |-> 300], [brand |-> <<"s", ".">>, rank |-> 300],
      [brand |-> <<"s", " ", "s">>, rank |-> 400]>>
Reversed(table) == [i \in 1..Len(table) |-> table[Len(table) + 1 - i]]
RankingTables ==
    LET firsts == {SubSeq(NineBrands, 1, n) : n \in 0..Len(NineBrands)}
        orders == firsts \cup {Reversed(t) : t \in firsts}
    IN orders \cup {SelectSeq(t, LAMBDA e : e.brand # <<"s">>) : t \in orders}
CurrentBrands == {<<"s">>, <<"S", "tm">>, <<" ", "S">>, <<"s", ".", " ", ".">>, <<"S", "S">>}
SomeProviderMetrics ==
    {[l \in AggregatedLLMs |-> FailedMetrics],
     [l \in {"chatgpt"} |->
         [brandRank |-> 110, citationsList |-> << >>, mentionRate |-> 800,
          sentimentScore |-> 750]],
     [l \in AggregatedLLMs |->
         IF l = "grok" THEN FailedMetrics
         ELSE [brandRank |-> None, citationsList |-> << >>, mentionRate |-> 600,
               sentimentScore |-> 750]]}
AggregateInputs ==
    ((UNION {[S -> ProviderMetrics] : S \in SUBSET AggregatedLLMs})
        \X {SubSeq(NineBrands, 1, 3)} \X {<<"S">>})
    \cup (SomeProviderMetrics \X RankingTables \X CurrentBrands)

Aggregate ==
    /\ kArgs.fn = "aggregate_metrics_across_llms"
    /\ kOut = NoOut
    /\ kOut' = [returned |-> TRUE,
                value |-> aggregate_metrics_across_llms(kArgs.per_llm_metrics,
                                                        kArgs.all_brands_ranking,
                                                        kArgs.brand_name)]
    /\ UNCHANGED <<kArgs, clientVars, fanVars, poolVars, resVars, cacheVars, persistVars,
                   calcVars, unitVars, pipeVars, brandVars>>

AggregateNext == Aggregate

-----------------------------------------------------------------------------
(* Citations: extract_domain of utils/url_utils.py, calculate_citations_list *)
(* and calculate_brand_domain_citation_rate.  A URL is held by its parts.    *)

Url(scheme, www, host, path, query) ==
    [scheme |-> scheme, www |-> www, host |-> host, path |-> path, query |-> query]

\* urlparse(url): scheme and netloc; a URL without "scheme://" has neither.
urlparse(url) ==
    [scheme |-> url.scheme,
     netloc |-> IF url.scheme = "" THEN << >>
                ELSE IF url.www THEN <<"www.", url.host>>
                ELSE <<url.host>>]

\* extract_domain(url): "scheme://netloc" without a leading "www.", the
\* scheme being https when the URL has none.
extract_domain(url) ==
    LET parsed == urlparse(url)
        netloc == IF parsed.netloc # << >> /\ Head(parsed.netloc) = "www."
                  THEN Tail(parsed.netloc)
                  ELSE parsed.netloc
    IN [scheme |-> IF parsed.scheme # "" THEN parsed.scheme ELSE "https",
        netloc |-> netloc]

\* f"https://{website}"
WebsiteUrl(website) == Url("https", website.www, website.host, "", "")

\* domains_in_response
DomainsIn(response) ==
    {extract_domain(response.citation_list[i]) : i \in 1..Len(response.citation_list)}

\* The keys of domain_counter.
CountedDomains(responses) == UNION {DomainsIn(responses[i]) : i \in 1..Len(responses)}

\* domain_counter[domain]
domain_counter(responses, domain) ==
    CountOf(SelectSeq(responses, LAMBDA r : domain \in DomainsIn(r)))

\* round((count / total_responses) * 100, 1), in tenths of a percent.
Percentage(responses, domain) ==
    Rounded(1000 * domain_counter(responses, domain), CountOf(responses))

\* The size of the list returned.
TopCitations == 5

\* citations.sort(key=(-percentage, -count)): every order of the counted
\* domains that agrees with the key (domains of one response enter the
\* counter in the iteration order of a set).
SortedDomains(responses) ==
    LET D == CountedDomains(responses)
        n == Cardinality(D)
        before(a, b) ==
            \/ Percentage(responses, a) > Percentage(responses, b)
            \/ /\ Percentage(responses, a) = Percentage(responses, b)
               /\ domain_counter(responses, a) >= domain_counter(responses, b)
    IN {s \in [1..n -> D] :
           /\ \A i, j \in 1..n : i # j => s[i] # s[j]
           /\ \A i \in 1..(n - 1) : before(s[i], s[i + 1])}

\* calculate_citations_list: the lists it can return.
calculate_citations_list(responses) ==
    {[i \in 1..Min2(TopCitations, Len(s)) |->
         [url |-> s[i], percentage |-> Percentage(responses, s[i])]] :
     s \in SortedDomains(responses)}

\* calculate_brand_domain_citation_rate, in thousandths.
calculate_brand_domain_citation_rate(website, responses) ==
    LET brand_domain == extract_domain(WebsiteUrl(website))
        citing == SelectSeq(responses, LAMBDA r : brand_domain \in DomainsIn(r))
    IN IF CountOf(responses) > 0
       THEN Rounded(1000 * CountOf(citing), CountOf(responses))
       ELSE 0

\* The URLs and citation lists explored.
SamsungPage == Url("https", FALSE, "samsung.com", "/phones", "")
SamsungWww == Url("https", TRUE, "samsung.com", "/tv", "id=1")
SamsungHttp == Url("http", FALSE, "samsung.com", "/phones", "")
SamsungBare == Url("", FALSE, "samsung.com", "/phones", "")
Site(host) == Url("https", FALSE, host, "/", "")
CitedLists ==
    {<< >>,
     <<SamsungPage, SamsungWww>>,
     <<SamsungHttp>>,
     <<SamsungBare>>,
     <<SamsungPage, Site("gsmarena.com"), Site("apple.com")>>,
     <<Site("cnet.com"), Site("theverge.com"), Site("wired.com")>>,
     <<Site("gsmarena.com")>>}
Cited(citation_list) == [brands_list |-> << >>, citation_list |-> citation_list, times |-> 1]
Websites == {[www |-> FALSE, host |-> "samsung.com"], [www |-> TRUE, host |-> "samsung.com"],
             [www |-> FALSE, host |-> "apple.com"]}
CitationInputs == SeqsUpTo({Cited(c) : c \in CitedLists}, MaxRecords)

CitationsList ==
    /\ kArgs.fn = "calculate_citations_list"
    /\ kOut = NoOut
    /\ \E top_5 \in calculate_citations_list(kArgs.responses) :
           kOut' = [returned |-> TRUE, value |-> top_5]
    /\ UNCHANGED <<kArgs, clientVars, fanVars, poolVars, resVars, cacheVars, persistVars,
                   calcVars, unitVars, pipeVars, brandVars>>

BrandDomainCitationRate ==
    /\ kArgs.fn = "calculate_brand_domain_citation_rate"
    /\ kOut = NoOut
    /\ kOut' = [returned |-> TRUE,
                value |-> calculate_brand_domain_citation_rate(kArgs.website, kArgs.responses)]
    /\ UNCHANGED <<kArgs, clientVars, fanVars, poolVars, resVars, cacheVars, persistVars,
                   calcVars, unitVars, pipeVars, brandVars>>

CitationsNext ==
    \/ CitationsList
    \/ BrandDomainCitationRate

-----------------------------------------------------------------------------
(* The brands table: BrandRepository.get_or_create, called once by every    *)
(* request of get_or_compute_metrics in the request's own session.          *)

\* get_or_create calls explored in a row.
MaxBrandCalls == 3

BrandNames == {<<"S">>, <<"s">>, <<"x">>}
BrandSites == {[host |-> <<"s">>, tld |-> "com"], [host |-> <<"s">>, tld |-> "org"],
               [host |-> <<"x">>, tld |-> "com"]}
Requests == {"r1", "r2"}

ExactName(name) == name

\* func.lower(Brand.name) == name.lower(): what the two sides are compared by.
NameKey(name) == Lower(name)

\* BrandRepository.get_by_name: the rows first() picks from.
get_by_name(rows, name) == {b \in rows : NameKey(b.name) = NameKey(name)}

\* Brand.website is unique: the flush of a row whose website a row of the
\* table has raises IntegrityError.
WebsiteTaken(rows, website) == \E b \in rows : b.website = website

\* BrandRepository.create: the table with the new row, its brand_id fresh.
BrandCreate(rows, id, name, website) ==
    rows \cup {[brand_id |-> id, name |-> name, website |-> website]}

\* str.capitalize() on the host: website.split(".")[0].capitalize().
UpperChar(c) == IF c = "s" THEN "S" ELSE c
brand_name(website) ==
    IF website.host = << >> THEN << >>
    ELSE <<UpperChar(Head(website.host))>> \o Lower(Tail(website.host))

NoBrandRequest == [pc |-> "idle", name |-> << >>, website |-> "", brand |-> "", raised |-> ""]

BrandIdle ==
    /\ bRows = {}
    /\ bLog = << >>
    /\ bReq = [r \in Requests |-> NoBrandRequest]

\* One whole call of get_or_create(db_session, name, website), committed by
\* its caller: the row found by name, or the row created; the flush of a
\* row whose website is taken raises IntegrityError.
GetOrCreate(name, website) ==
    /\ Len(bLog) < MaxBrandCalls
    /\ LET id == <<"brand", Len(bLog) + 1>>
       IN IF get_by_name(bRows, name) # {}
          THEN /\ \E brand \in get_by_name(bRows, name) :
                      bLog' = Append(bLog, [name |-> name, website |-> website,
                                            returned |-> brand.brand_id, raised |-> ""])
               /\ UNCHANGED bRows
          ELSE IF WebsiteTaken(bRows, website)
          THEN /\ bLog' = Append(bLog, [name |-> name, website |-> website,
                                        returned |-> "", raised |-> "IntegrityError"])
               /\ UNCHANGED bRows
          ELSE /\ bRows' = BrandCreate(bRows, id, name, website)
               /\ bLog' = Append(bLog, [name |-> name, website |-> website,
                                        returned |-> id, raised |-> ""])
    /\ UNCHANGED <<bReq, outsideBrands>>

BrandsNext == \E name \in BrandNames, website \in BrandSites : GetOrCreate(name, website)

\* Two requests at a time.  A request comes in for a website; its brand
\* name is derived from the website.
RequestBegin(r, website) ==
    /\ bReq[r].pc = "idle"
    /\ bReq' = [bReq EXCEPT ![r] = [NoBrandRequest EXCEPT !.pc = "get_by_name",
                                                          !.name = brand_name(website),
                                                          !.website = website]]
    /\ UNCHANGED <<bRows, bLog, outsideBrands>>

\* brand = BrandRepository.get_by_name(db_session, name): the request's
\* session sees the committed rows.
RequestGetByName(r) ==
    /\ bReq[r].pc = "get_by_name"
    /\ IF get_by_name(bRows, bReq[r].name) # {}
       THEN \E brand \in get_by_name(bRows, bReq[r].name) :
                bReq' = [bReq EXCEPT ![r].pc = "commit", ![r].brand = brand.brand_id]
       ELSE bReq' = [bReq EXCEPT ![r].pc = "create"]
    /\ UNCHANGED <<bRows, bLog, outsideBrands>>

\* The requests whose created row is flushed and not yet committed.
Uncommitted(r) == bReq[r].pc = "commit" /\ bReq[r].brand = r

\* BrandRepository.create: the flush inserts the row.  The insert waits
\* while another transaction holds an uncommitted row of the same website,
\* and raises IntegrityError when a committed row has the website.
RequestCreate(r) ==
    /\ bReq[r].pc = "create"
    /\ ~\E o \in Requests \ {r} : Uncommitted(o) /\ bReq[o].website = bReq[r].website
    /\ IF WebsiteTaken(bRows, bReq[r].website)
       THEN bReq' = [bReq EXCEPT ![r].pc = "raised", ![r].raised = "IntegrityError"]
       ELSE bReq' = [bReq EXCEPT ![r].pc = "commit", ![r].brand = r]
    /\ UNCHANGED <<bRows, bLog, outsideBrands>>

\* db_session.commit() of line 87.
RequestCommit(r) ==
    /\ bReq[r].pc = "commit"
    /\ bRows' = IF Uncommitted(r)
                THEN BrandCreate(bRows, r, bReq[r].name, bReq[r].website)
                ELSE bRows
    /\ bReq' = [bReq EXCEPT ![r].pc = "check_cache"]
    /\ UNCHANGED <<bLog, outsideBrands>>

\* cached_result = check_cache(db_session, brand.brand_id, 24, logger): the
\* call has to bind before the request goes on to its result.
RequestCheckCache(r) ==
    /\ bReq[r].pc = "check_cache"
    /\ IF Binds(check_cache_parameters, check_cache_arguments)
       THEN bReq' = [bReq EXCEPT ![r].pc = "returned"]
       ELSE bReq' = [bReq EXCEPT ![r].pc = "raised", ![r].raised = "TypeError"]
    /\ UNCHANGED <<bRows, bLog, outsideBrands>>

RaceNext ==
    \/ \E r \in Requests, website \in BrandSites : RequestBegin(r, website)
    \/ \E r \in Requests : RequestGetByName(r)
    \/ \E r \in Requests : RequestCreate(r)
    \/ \E r \in Requests : RequestCommit(r)
    \/ \E r \in Requests : RequestCheckCache(r)
-----------------------------------------------------------------------------
(* Specifications                                                          *)

\* One provider client serving query() calls.
ClientInit ==
    /\ ClientIdle
    /\ FanIdle
    /\ PoolIdle
    /\ ResolverIdle
    /\ CacheIdle
    /\ PersistIdle
    /\ CalcIdle
    /\ UnitIdle
    /\ PipelineIdle
    /\ PureIdle
    /\ BrandIdle

ClientNext ==
    \/ \E c \in Clients : QueryStart(c)
    \/ \E t \in TryBody(qClient) : QueryAttempt(t)

SpecClient == ClientInit /\ [][ClientNext]_vars

\* One query_llms_parallel() call, every task tracked.
FanOutInit ==
    /\ ClientIdle
    /\ FanInit
    /\ PoolIdle
    /\ ResolverIdle
    /\ CacheIdle
    /\ PersistIdle
    /\ CalcIdle
    /\ UnitIdle
    /\ PipelineIdle
    /\ PureIdle
    /\ BrandIdle

SpecFanOut == FanOutInit /\ [][FanNext]_vars

\* The worker pool of one query_llms_parallel() call, tasks tracked by count.
WorkerPoolInit ==
    /\ ClientIdle
    /\ PoolInit
    /\ ResolverIdle
    /\ CacheIdle
    /\ PersistIdle
    /\ CalcIdle
    /\ UnitIdle
    /\ PipelineIdle
    /\ PureIdle
    /\ BrandIdle

\* get_or_generate_prompts() calls for one brand.
PromptResolverInit ==
    /\ ClientIdle
    /\ FanIdle
    /\ PoolIdle
    /\ ResolverInit
    /\ CacheIdle
    /\ PersistIdle
    /\ CalcIdle
    /\ UnitIdle
    /\ PipelineIdle
    /\ PureIdle
    /\ BrandIdle

SpecResolver == PromptResolverInit /\ [][ResolverNext]_vars

\* The metrics table under upserts, and check_cache() calls.
CacheGateInit ==
    /\ ClientIdle
    /\ FanIdle
    /\ PoolIdle
    /\ ResolverIdle
    /\ CacheIdle
    /\ PersistIdle
    /\ CalcIdle
    /\ UnitIdle
    /\ PipelineIdle
    /\ PureIdle
    /\ BrandIdle

SpecCache == CacheGateInit /\ [][CacheNext]_vars

SpecPool == WorkerPoolInit /\ [][PoolNext]_vars

\* One run of the stages prompt resolution, fan-out and response persistence,
\* each stage called with the parameters its signature declares.
StagesInit ==
    /\ ClientIdle
    /\ PoolIdle
    /\ CacheIdle
    /\ StageInit
    /\ CalcIdle
    /\ UnitIdle
    /\ PipelineIdle
    /\ PureIdle
    /\ BrandIdle

SpecStages == StagesInit /\ [][StageNext]_vars

\* calculate_and_store_metrics() calls for a brand whose prompt has
\* responses, between which further responses are stored and time passes.
MetricsInit ==
    /\ ClientIdle
    /\ FanIdle
    /\ PoolIdle
    /\ rPromptRows = <<"p1">>
    /\ rCount = 0
    /\ rPc = "idle"
    /\ rExisting = << >>
    /\ rReturned = << >>
    /\ rGenAsked = << >>
    /\ rGenReply = << >>
    /\ rRuns = 0
    /\ CacheIdle
    /\ PersistIdle
    /\ CalcIdle
    /\ UnitIdle
    /\ PipelineIdle
    /\ PureIdle
    /\ BrandIdle

SpecMetrics == MetricsInit /\ [][CalcNext]_vars

\* _query_single() calls, one per client outcome.
UnitInit ==
    /\ ClientIdle
    /\ FanIdle
    /\ PoolIdle
    /\ ResolverIdle
    /\ CacheIdle
    /\ PersistIdle
    /\ CalcIdle
    /\ UnitIdle
    /\ PipelineIdle
    /\ PureIdle
    /\ BrandIdle

SpecUnit == UnitInit /\ [][UnitNext]_vars

\* get_or_compute_metrics() requests over a metrics table that holds rows of
\* earlier computations.
PipelineInit ==
    /\ ClientIdle
    /\ FanIdle
    /\ PoolIdle
    /\ ResolverIdle
    /\ CacheIdle
    /\ PersistIdle
    /\ CalcIdle
    /\ UnitIdle
    /\ PipelineIdle
    /\ PureIdle
    /\ BrandIdle

SpecPipeline == PipelineInit /\ [][PipelineNext]_vars

\* One call of aggregate_metrics_across_llms on any dict of per-provider
\* metrics over the providers explored, or on a few dicts with any of the
\* ranking tables and brand names explored.
AggregateInit ==
    /\ ClientIdle
    /\ FanIdle
    /\ PoolIdle
    /\ ResolverIdle
    /\ CacheIdle
    /\ PersistIdle
    /\ CalcIdle
    /\ UnitIdle
    /\ PipelineIdle
    /\ kArgs \in {[fn |-> "aggregate_metrics_across_llms", per_llm_metrics |-> in[1],
                     all_brands_ranking |-> in[2], brand_name |-> in[3]] :
                    in \in AggregateInputs}
    /\ kOut = NoOut
    /\ BrandIdle

SpecAggregate == AggregateInit /\ [][AggregateNext]_vars

\* One call of calculate_mention_rate or calculate_brand_rank.
RatesInit ==
    /\ ClientIdle
    /\ FanIdle
    /\ PoolIdle
    /\ ResolverIdle
    /\ CacheIdle
    /\ PersistIdle
    /\ CalcIdle
    /\ UnitIdle
    /\ PipelineIdle
    /\ kArgs \in {[fn |-> f, brand_name |-> in[1], responses |-> in[2]] :
                    f \in {"calculate_mention_rate", "calculate_brand_rank"},
                    in \in RateInputs}
    /\ kOut = NoOut
    /\ BrandIdle

SpecRates == RatesInit /\ [][RatesNext]_vars

\* One call of calculate_citations_list or
\* calculate_brand_domain_citation_rate.
CitationsInit ==
    /\ ClientIdle
    /\ FanIdle
    /\ PoolIdle
    /\ ResolverIdle
    /\ CacheIdle
    /\ PersistIdle
    /\ CalcIdle
    /\ UnitIdle
    /\ PipelineIdle
    /\ kArgs \in {[fn |-> "calculate_citations_list", responses |-> r] : r \in CitationInputs}
                 \cup {[fn |-> "calculate_brand_domain_citation_rate", website |-> w,
                        responses |-> r] : w \in Websites, r \in CitationInputs}
    /\ kOut = NoOut
    /\ BrandIdle

SpecCitations == CitationsInit /\ [][CitationsNext]_vars

\* One call of calculate_all_brands_ranking.
RankingInit ==
    /\ ClientIdle
    /\ FanIdle
    /\ PoolIdle
    /\ ResolverIdle
    /\ CacheIdle
    /\ PersistIdle
    /\ CalcIdle
    /\ UnitIdle
    /\ PipelineIdle
    /\ kArgs \in {[fn |-> "calculate_all_brands_ranking", all_responses |-> r] :
                    r \in RankingInputs}
    /\ kOut = NoOut
    /\ BrandIdle

SpecRanking == RankingInit /\ [][RankingNext]_vars
\* get_or_create calls one after the other, on a brands table that starts
\* empty.
BrandsInit ==
    /\ ClientIdle
    /\ FanIdle
    /\ PoolIdle
    /\ ResolverIdle
    /\ CacheIdle
    /\ PersistIdle
    /\ CalcIdle
    /\ UnitIdle
    /\ PipelineIdle
    /\ PureIdle
    /\ BrandIdle

SpecBrands == BrandsInit /\ [][BrandsNext]_vars

\* Two requests of get_or_compute_metrics at a time, each in its own
\* session, on a brands table that starts empty.
RaceInit ==
    /\ ClientIdle
    /\ FanIdle
    /\ PoolIdle
    /\ ResolverIdle
    /\ CacheIdle
    /\ PersistIdle
    /\ CalcIdle
    /\ UnitIdle
    /\ PipelineIdle
    /\ PureIdle
    /\ BrandIdle

SpecRace == RaceInit /\ [][RaceNext]_vars
\* calculate_and_store_metrics() calls that can be interrupted before their
\* commit.
InterruptInit ==
    /\ ClientIdle
    /\ FanIdle
    /\ PoolIdle
    /\ rPromptRows = <<"p1">>
    /\ rCount = 0
    /\ rPc = "idle"
    /\ rExisting = << >>
    /\ rReturned = << >>
    /\ rGenAsked = << >>
    /\ rGenReply = << >>
    /\ rRuns = 0
    /\ CacheIdle
    /\ PersistIdle
    /\ CalcIdle
    /\ UnitIdle
    /\ PipelineIdle
    /\ PureIdle
    /\ BrandIdle

SpecInterrupt == InterruptInit /\ [][InterruptNext]_vars
-----------------------------------------------------------------------------
(* Claims about the provider client (SpecClient)                           *)

AllTimedOut == Len(qThrown) > 0 /\ \A i \in 1..Len(qThrown) : qThrown[i] \in BackendTimeouts

\* C4: a query() whose backend exchange times out is retried: when every
\* attempt times out it makes exactly max_attempts (3) exchanges and then
\* fails with the Timeout kind, and when a later attempt succeeds the answer
\* returned is that attempt's.
C4_TimeoutRetriedThreeTimes ==
    /\ (qPc = "raised" /\ AllTimedOut)
          => (qExchanges = max_attempts /\ qRaised = "LLMTimeoutError")
    /\ (qPc = "returned") => (qAnswer = qExchanges)

\* The kind an exchange's failure has at the client boundary.
FailureKind(i) == MapException(qClient, qThrown[i])

\* C5: an exchange that fails as RateLimited or APIError is the only exchange
\* of its query() call, and the call has failed with exactly that kind: such
\* a failure is never followed by another attempt.
C5_RateLimitAndAPIErrorNotRetried ==
    \A i \in 1..Len(qThrown) :
        (qThrown[i] # "ok" /\ FailureKind(i) \in {"LLMRateLimitError", "LLMAPIError"})
            => /\ qExchanges = 1
               /\ qPc = "raised"
               /\ qRaised = FailureKind(i)

C5_Witness ==
    /\ qClient = "perplexity"
    /\ qPc = "raised"
    /\ qRaised = "LLMRateLimitError"
    /\ qThrown = <<"LLMRateLimitError">>
    /\ qExchanges = 1

\* C6: whatever leaves query() is LLMTimeoutError, LLMRateLimitError,
\* LLMAPIError or the base LLMError.
C6_OnlyFourKindsEscape == (qPc = "raised") => (qRaised \in LLMKinds)

C6_Witness ==
    /\ qClient = "grok"
    /\ qPc = "raised"
    /\ qThrown = <<"Exception">>
    /\ qRaised = "LLMError"

-----------------------------------------------------------------------------
(* Claims about the fan-out executor (SpecFanOut)                          *)

Failed(u) == fUnit[u].out.kind \notin {"none", "ok"}

\* Positions of results[l] that carry prompt p with (failed = TRUE) or
\* without an error, and the collected tasks of l they have to account for.
EntriesOf(l, p, failed) ==
    {k \in 1..Len(fResults[l]) :
        fResults[l][k].prompt = p /\ ((fResults[l][k].error # NoError) = failed)}
CollectedOf(l, p, failed) ==
    {u \in Tasks : /\ u[1] = l
                   /\ fPrompts[u[2]] = p
                   /\ fUnit[u].st = "collected"
                   /\ Failed(u) = failed}

FailureEntryEmpty(e) ==
    (e.error # NoError) => (e.answer = << >> /\ e.brands_list = << >> /\ e.citation_list = << >>)

\* C2: query_llms_parallel returns only when every submitted task has a
\* terminal outcome, and its result then has one list per provider with
\* exactly one entry per task: len(prompts) entries, each a success (error
\* None) or a failure (error set, answer and both lists empty).
C2_OneTerminalOutcomePerUnit ==
    (fPc = "returned") =>
        /\ \A u \in Tasks : fUnit[u].st = "collected" /\ fUnit[u].out.kind # "none"
        /\ DOMAIN fResults = fClients
        /\ \A l \in fClients :
              /\ Len(fResults[l]) = Len(fPrompts)
              /\ \A k \in 1..Len(fResults[l]) : FailureEntryEmpty(fResults[l][k])
              /\ \A p \in PromptTexts, failed \in BOOLEAN :
                    Cardinality(EntriesOf(l, p, failed)) = Cardinality(CollectedOf(l, p, failed))

C2_Witness ==
    /\ fPc = "returned"
    /\ Cardinality(Tasks) = 4
    /\ \E u, v \in Tasks : fUnit[u].out.kind = "ok" /\ fUnit[v].out.kind = "LLMTimeoutError"

\* C3: a task whose provider call raised never makes query_llms_parallel
\* raise (it raises only for an empty task set, before any task exists), and
\* on return every task is recorded, the failures exactly in the entries of
\* the tasks that failed.
C3_UnitFailureIsolated ==
    /\ (fPc = "raised") => (Tasks = {} /\ fError = "ValueError")
    /\ (fPc = "returned") =>
          \A l \in fClients :
              /\ Len(fResults[l]) = Cardinality({u \in Tasks : u[1] = l})
              /\ Cardinality({k \in 1..Len(fResults[l]) : fResults[l][k].error # NoError})
                    = Cardinality({u \in Tasks : u[1] = l /\ Failed(u)})

C3_Witness ==
    /\ fPc = "returned"
    /\ \E u, v, w \in Tasks :
          /\ fUnit[u].out.kind = "Exception"
          /\ fUnit[v].out.kind = "LLMRateLimitError"
          /\ fUnit[w].out.kind = "ok"
          /\ \E k \in 1..Len(fResults[w[1]]) : fResults[w[1]][k].error = NoError

\* C8: in every interleaving each entry of results[l] comes from a task of
\* provider l and carries that task's prompt: a success holds provider l's
\* answer to the entry's prompt, a failure holds an error of provider l's
\* client, and the entries under (l, prompt) are as many as the collected
\* tasks of that pair with that outcome.
C8_EntriesFiledUnderOwnTask ==
    (fPc \in {"collecting", "returned"}) =>
        \A l \in fClients :
            /\ \A k \in 1..Len(fResults[l]) :
                  LET e == fResults[l][k] IN
                  IF e.error = NoError
                  THEN e.answer = AnswerOf(l, e.prompt)
                  ELSE e.error[3] = l
            /\ \A p \in PromptTexts, failed \in BOOLEAN :
                  Cardinality(EntriesOf(l, p, failed)) = Cardinality(CollectedOf(l, p, failed))

\* Two providers, two different prompts, collected in an order other than the
\* submission order.
C8_Witness ==
    /\ fPc = "collecting"
    /\ Cardinality(fClients) = 2
    /\ Len(fPrompts) = 2 /\ fPrompts[1] # fPrompts[2]
    /\ \E l \in fClients :
          /\ Len(fResults[l]) = 2
          /\ fResults[l][1].prompt = fPrompts[2]
          /\ fResults[l][1].error = NoError
          /\ fResults[l][2].error # NoError
    /\ \E u \in Tasks : fUnit[u].st = "running"

-----------------------------------------------------------------------------
(* Claims about the worker pool (SpecPool)                                 *)

\* C7: at every moment the number of tasks executing concurrently is at most
\* min(number of tasks, 64); the other unfinished tasks wait.
C7_ConcurrencyBounded ==
    /\ pRunning <= Cardinality(Tasks)
    /\ pRunning <= 64
    /\ (fPc = "collecting") => (pPending + pRunning + pDone = Cardinality(Tasks))

\* More tasks than workers: the ceiling is reached while tasks still wait.
C7_Witness ==
    /\ Cardinality(Tasks) > 64
    /\ pRunning = 64
    /\ pPending > 0

-----------------------------------------------------------------------------
(* Claims about the prompt resolver (SpecResolver)                         *)

Occurrences(seq, t) == Cardinality({i \in 1..Len(seq) : seq[i] = t})

\* C9: with at least count stored prompts the resolver returns exactly count
\* prompts, each stored row used at most once (all rows, as stored, when
\* there are exactly count), asks for no generation and stores nothing.
C9_StoredPromptsSuffice ==
    (rPc = "returned" /\ Len(rExisting) >= rCount) =>
        /\ Len(rReturned) = rCount
        /\ \A t \in PromptTexts : Occurrences(rReturned, t) <= Occurrences(rExisting, t)
        /\ (Len(rExisting) = rCount) => (rReturned = rExisting)
        /\ rGenAsked = << >>
        /\ rGenReply = << >>
        /\ rPromptRows = rExisting

\* A proper sample of two out of three rows, not a prefix of the stored list.
C9_Witness ==
    /\ rPc = "returned"
    /\ Len(rExisting) = 3
    /\ rCount = 2
    /\ Len(rReturned) = 2
    /\ rReturned[1] # rExisting[1]
    /\ rReturned[1] # rReturned[2]

\* Lines of the generator's reply that carry a prompt.
UsableLines == {i \in 1..Len(rGenReply) : rGenReply[i].text # ""}

-----------------------------------------------------------------------------
(* Claims about the cache gate (SpecCache)                                 *)

Stored(b) == {m.llm_name : m \in {x \in mTable : x.brand_id = b}}

\* C1: check_cache reports a hit if and only if every active provider has a
\* stored metric of the brand; otherwise it reports a miss (None), and a hit
\* never leaves out the metric of an active provider.
C1_HitIffEveryActiveStored ==
    (cOut.outcome # "none") =>
        /\ (cOut.outcome = "hit") <=> (cOut.active \subseteq Stored(cOut.brand_id))
        /\ (cOut.outcome # "hit") => (cOut.outcome = "miss" /\ cOut.metrics = {})
        /\ (cOut.outcome = "hit") => (cOut.active \subseteq cOut.metrics)

ReturnedRows == {m \in mTable : m.brand_id = cOut.brand_id /\ m.llm_name \in cOut.metrics}

\* C22: on a hit computed_at is the minimum updated_at over the metrics
\* returned, hence never later than the updated_at of any returned metric.
C22_ComputedAtIsOldestUpdate ==
    (cOut.outcome = "hit") =>
        /\ ReturnedRows # {}
        /\ \E m \in ReturnedRows : cOut.computed_at = m.updated_at
        /\ \A m \in ReturnedRows : cOut.computed_at <= m.updated_at

\* A hit that returns metrics updated at different times.
C22_Witness ==
    /\ cOut.outcome = "hit"
    /\ \E m1, m2 \in ReturnedRows : m1.updated_at < m2.updated_at

-----------------------------------------------------------------------------
(* Claims about a run of the stages (SpecStages)                           *)

\* Prompt rows of the brand that hold text p.
RowsWithText(p) == {i \in 1..Len(rPromptRows) : rPromptRows[i] = p}

\* The tasks of provider l whose prompt is p.
UnitsOf(l, p) == {u \in Tasks : u[1] = l /\ fPrompts[u[2]] = p}

\* The response rows process_responses has added for provider l and prompt
\* text p.
NewResponses(l, p) ==
    {r \in respRows \ prSnap.responses :
        r.llm_name = l /\ r.prompt_id \in RowsWithText(p)}

\* C12: when the responses of a run are stored, no prompt text of the run has
\* more than one Prompt row: the rows are those prompt resolution left, and
\* every response is stored against one of them.
C12_OnePromptRowPerText ==
    (prPc = "returned") =>
        /\ \A i \in 1..Len(fPrompts) : Cardinality(RowsWithText(fPrompts[i])) <= 1
        /\ rPromptRows = prSnap.prompts
        /\ \A r \in respRows : r.prompt_id \in 1..Len(prSnap.prompts)

\* C13: a run has created exactly one response row for every unit that
\* succeeded (error None) and none for a unit that failed.
C13_OneRecordPerSucceededUnit ==
    (prPc = "returned") =>
        \A l \in fClients, p \in PromptTexts :
            Cardinality(NewResponses(l, p))
                = Cardinality({u \in UnitsOf(l, p) : fUnit[u].out.kind = "ok"})

\* C14: every unit of a run costs exactly one client.query(): the stored
\* answer and lists are those of the unit's reply, and storing the response
\* queries no provider.
C14_OneQueryPerUnit ==
    (fPc = "returned") =>
        /\ \A l \in fClients, p \in PromptTexts :
              sQueries[<<l, p>>] = Cardinality(UnitsOf(l, p))
        /\ \A r \in respRows \ prSnap.responses :
              r.lists = BrandsOf(r.llm_name, rPromptRows[r.prompt_id])

-----------------------------------------------------------------------------
(* Claims about the metrics calculator and the metrics table (SpecMetrics) *)

\* The providers whose iteration is over.
Processed == {xNames[i] : i \in 1..xDone}

\* C15: the metrics table never holds two rows of one (brand, provider), in
\* the committed table or in a session's view of it; and when a computation
\* has returned, the one row of every provider it computed carries the
\* computed values and the time of that upsert, and is the row the pair had
\* before (if it had one).
C15_OneMetricRowPerPair ==
    /\ \A b \in Brands, l \in Clients :
          /\ Cardinality(RowsOf(mTable, b, l)) <= 1
          /\ Cardinality(RowsOf(xTable, b, l)) <= 1
    /\ (xPc = "returned") =>
          \A l \in Processed :
              (xResult[l].status = "ok") =>
                  \E m \in mTable :
                      /\ RowsOf(mTable, xBrand, l) = {m}
                      /\ m.value = xResult[l].value
                      /\ m.updated_at = xUpserted[l]
                      /\ \A old \in RowsOf(xBefore, xBrand, l) : old.metric_id = m.metric_id

\* A second computation has overwritten chatgpt's row: other values, a later
\* timestamp, the same row.
C15_Witness ==
    /\ xPc = "returned"
    /\ xRuns = 2
    /\ \E old \in RowsOf(xBefore, xBrand, "chatgpt"), m \in RowsOf(mTable, xBrand, "chatgpt") :
          /\ old.value = 1 /\ old.updated_at = 0
          /\ m.value = 2 /\ m.updated_at = 1
          /\ m.metric_id = old.metric_id

\* C16: a provider without stored responses of the brand gets a failure
\* marker, and its metrics row (if any) is neither created nor changed, in
\* the session and in the committed table.
C16_NoRecordsGivesFailureMarker ==
    (xPc \in {"looping", "returned", "raised"}) =>
        \A l \in Processed :
            (get_by_brand_and_llm(xBrand, l) = {}) =>
                /\ xResult[l].status = "failed"
                /\ xResult[l].error # ""
                /\ RowsOf(xTable, xBrand, l) = RowsOf(xBefore, xBrand, l)
                /\ RowsOf(mTable, xBrand, l) = RowsOf(xBefore, xBrand, l)

\* chatgpt has responses and gets metrics, gemini has none and gets the
\* marker, in one call.
C16_Witness ==
    /\ xPc = "returned"
    /\ xNames = <<"chatgpt", "gemini">>
    /\ xResult["chatgpt"].status = "ok"
    /\ get_by_brand_and_llm(xBrand, "gemini") = {}
    /\ xResult["gemini"] = FailureMarker("No responses available")
    /\ RowsOf(mTable, xBrand, "gemini") = {}

\* C17: when computing or upserting one provider's metrics raises, that
\* provider's entry is a failure marker, every other provider that has
\* responses is still computed, and calculate_and_store_metrics does not
\* raise.
C17_ProviderFailureIsolated ==
    /\ xPc # "raised"
    /\ \A l \in Processed :
          \/ xResult[l].status = "ok"
          \/ xResult[l] \in {FailureMarker("compute"), FailureMarker("upsert")}
          \/ get_by_brand_and_llm(xBrand, l) = {}

-----------------------------------------------------------------------------
(* Claims about one unit (SpecUnit)                                        *)

\* The structured section of the reply is no JSON object with iterable
\* "brands" and "citations".
Unparsable(reply) ==
    \/ reply.json \in {"invalid", "array"}
    \/ reply.brands = "null"
    \/ reply.citations = "null"

-----------------------------------------------------------------------------
(* Claims about the orchestrator (SpecPipeline)                            *)

\* A request has been served.
Requested == gCall.website # ""

\* The cache gate's condition for a hit held when the request came in.
HitCondition == gCall.clients # {} /\ gCall.clients \subseteq gCall.stored

\* C11: a request with no active provider fails with the configuration
\* error raised where the prompt generator is picked, having queried nothing
\* and returned nothing; and whenever a request gets to prompt generation,
\* the generator is chatgpt if that is active, otherwise an active provider.
C11_GeneratorOrConfigurationError ==
    Requested =>
        /\ (gCall.clients = {}) =>
              /\ gCall.raised = "ValueError"
              /\ gCall.at = "prompt_generator"
              /\ gCall.queried = {}
              /\ gCall.cached = ""
        /\ (gCall.generator # "") =>
              /\ gCall.generator \in gCall.clients
              /\ ("chatgpt" \in gCall.clients) => (gCall.generator = "chatgpt")

\* C19: a request that comes in when every active provider has a stored
\* metric returns cached = true, having queried no provider and added no
\* TimeProfile row (nor any prompt, response or metric).
C19_CacheHitOnlyReads ==
    (Requested /\ HitCondition) =>
        /\ gCall.raised = ""
        /\ gCall.cached = "true"
        /\ gCall.queried = {}
        /\ gCall.stages = <<"aggregate">>
        /\ gCall.profiles = 0

\* C20: a request that comes in when some active provider has no stored
\* metric runs prompt resolution, fan-out, persistence, metric calculation
\* and aggregation in this order, adds exactly one TimeProfile row and
\* returns cached = false.
C20_MissRunsStagesInOrder ==
    (Requested /\ gCall.clients # {} /\ ~HitCondition) =>
        /\ gCall.raised = ""
        /\ gCall.cached = "false"
        /\ gCall.stages = <<"resolve", "query", "persist", "calculate", "aggregate">>
        /\ gCall.profiles = 1

-----------------------------------------------------------------------------
(* Claims about the aggregation (SpecAggregate)                            *)

Aggregated == kArgs.fn = "aggregate_metrics_across_llms" /\ kOut.returned

\* The providers of the call that succeeded and have a value under key.
Having(key) ==
    {l \in DOMAIN kArgs.per_llm_metrics :
        /\ ~HasError(kArgs.per_llm_metrics[l])
        /\ key \in DOMAIN kArgs.per_llm_metrics[l]
        /\ kArgs.per_llm_metrics[l][key] # None}

RECURSIVE Total(_, _)
Total(S, key) ==
    IF S = {} THEN 0
    ELSE LET l == CHOOSE x \in S : TRUE
         IN kArgs.per_llm_metrics[l][key] + Total(S \ {l}, key)

\* avg is the mean of key over the providers having it, to the nearest unit.
IsRoundedMean(avg, key) ==
    LET n == Cardinality(Having(key))
        d == avg * n - Total(Having(key), key)
    IN -n <= 2 * d /\ 2 * d <= n

\* C23: every averaged figure is computed over the providers without a
\* failure marker only (the rates and the sentiment are their rounded mean,
\* the ranking lies between their mean and their mean plus one), while each
\* failed provider is in mentionRateByLLM and citationsByLLM with 0.0 and in
\* citationOverview with an empty list.
C23_FailedProvidersOutOfAverages ==
    (Aggregated /\ "error" \notin DOMAIN kOut.value) =>
        /\ IsRoundedMean(kOut.value.averageMentionRate, "mentionRate")
        /\ Having("brandDomainCitationRate") # {} =>
               IsRoundedMean(kOut.value.citations, "brandDomainCitationRate")
        /\ IsRoundedMean(kOut.value.averageSentiment, "sentimentScore")
        /\ Having("brandRank") # {} =>
               LET n == Cardinality(Having("brandRank"))
                   total == Total(Having("brandRank"), "brandRank")
               IN /\ kOut.value.averageRanking * 100 * n >= total
                  /\ (kOut.value.averageRanking - 1) * 100 * n <= total
        /\ \A l \in DOMAIN kArgs.per_llm_metrics :
               HasError(kArgs.per_llm_metrics[l]) =>
                   /\ kOut.value.mentionRateByLLM[l] = 0
                   /\ kOut.value.citationsByLLM[l] = 0
                   /\ kOut.value.citationOverview[l] = << >>

\* Mention rates 0.8 and 0.6 and one failed provider: the average is 0.7.
C23_Witness ==
    /\ Aggregated
    /\ DOMAIN kArgs.per_llm_metrics = AggregatedLLMs
    /\ HasError(kArgs.per_llm_metrics["grok"])
    /\ Get(kArgs.per_llm_metrics["chatgpt"], "mentionRate", None) = 800
    /\ Get(kArgs.per_llm_metrics["gemini"], "mentionRate", None) = 600
    /\ kOut.value.averageMentionRate = 700
    /\ kOut.value.mentionRateByLLM["grok"] = 0

MetricFields ==
    {"averageMentionRate", "citations", "averageSentiment", "averageRanking",
     "mentionRateByLLM", "citationsByLLM", "citationOverview", "rankByLLMs",
     "rankingOverview"}

\* C24: when every provider of the input carries a failure marker the
\* result is a failure object with no metric field; a metrics object is
\* returned only when some provider succeeded.
C24_AllFailedGivesFailureObject ==
    Aggregated =>
        IF \A l \in DOMAIN kArgs.per_llm_metrics : HasError(kArgs.per_llm_metrics[l])
        THEN DOMAIN kOut.value = {"error"}
        ELSE DOMAIN kOut.value = MetricFields

\* Three providers, all failed.
C24_Witness ==
    /\ Aggregated
    /\ DOMAIN kArgs.per_llm_metrics = AggregatedLLMs
    /\ \A l \in AggregatedLLMs : HasError(kArgs.per_llm_metrics[l])
    /\ kOut.value = [error |-> "All LLM requests failed"]

\* C25: averageRanking is the ceiling of the mean brandRank over the
\* successful providers with a rank (an integer mean is left as it is), and
\* None when there is no such provider.
C25_AverageRankingIsCeilingOfMean ==
    (Aggregated /\ "error" \notin DOMAIN kOut.value) =>
        LET n == Cardinality(Having("brandRank"))
            total == Total(Having("brandRank"), "brandRank")
            avg == kOut.value.averageRanking
        IN IF n = 0 THEN avg = None
           ELSE /\ avg * 100 * n >= total
                /\ (avg - 1) * 100 * n < total

\* The table and the brand of the call, and the overview of the result.
TableGiven == kArgs.all_brands_ranking
Overview == kOut.value.rankingOverview
Succeeded == Aggregated /\ "rankingOverview" \in DOMAIN kOut.value

\* C32: the ranking overview lists the first 7 entries of the ranking table
\* in the table's order, all of them when the table has fewer, and the
\* current brand with the table's value under the brand's normalized name,
\* or None when the table has no such entry.
C32_OverviewIsFirstSevenPlusCurrentBrand ==
    Succeeded =>
        /\ Len(Overview.topBrands) = Min2(7, Len(TableGiven))
        /\ \A i \in 1..Len(Overview.topBrands) : Overview.topBrands[i] = TableGiven[i]
        /\ Overview.currentBrand.brand = kArgs.brand_name
        /\ \A i \in 1..Len(TableGiven) :
               TableGiven[i].brand = normalize_brand_name(kArgs.brand_name)
                   => Overview.currentBrand.rank = TableGiven[i].rank
        /\ (\A i \in 1..Len(TableGiven) :
               TableGiven[i].brand # normalize_brand_name(kArgs.brand_name))
               => Overview.currentBrand.rank = None

\* A table of nine brands is cut to seven, and "S(tm)" is found under "s"
\* although its entry is not among the seven.
C32_Witness ==
    /\ Succeeded
    /\ TableGiven = Reversed(NineBrands)
    /\ Len(Overview.topBrands) = 7
    /\ kArgs.brand_name = <<"S", "tm">>
    /\ Overview.currentBrand.rank = 160

\* A brand without an entry in the table has no rank.
C32_WitnessAbsent ==
    /\ Succeeded
    /\ kArgs.brand_name = <<"S", "S">>
    /\ Len(TableGiven) > 0
    /\ Overview.currentBrand.rank = None

-----------------------------------------------------------------------------
(* Claims about the mention rate and the brand rank (SpecRates)            *)

RateReturned == kArgs.fn = "calculate_mention_rate" /\ kOut.returned
RankReturned == kArgs.fn = "calculate_brand_rank" /\ kOut.returned

\* The records of the call, and those whose normalized mention list holds
\* the normalized brand.
TotalRecords == CountOf(kArgs.responses)
MentioningRecords == CountOf(Mentioning(kArgs.brand_name, kArgs.responses))

\* C26: the mention rate lies in [0, 1], is the share of the records whose
\* normalized mention list holds the normalized brand, rounded to three
\* decimals, is 0.0 without records, and is 0.0 if and only if the brand is
\* in no record.
C26_MentionRateZeroIffAbsent ==
    RateReturned =>
        /\ 0 <= kOut.value /\ kOut.value <= 1000
        /\ LET d == kOut.value * TotalRecords - 1000 * MentioningRecords
           IN -TotalRecords <= 2 * d /\ 2 * d <= TotalRecords
        /\ TotalRecords = 0 => kOut.value = 0
        /\ kOut.value = 0 <=> MentioningRecords = 0

PositionSum == SumOfRanks(kArgs.brand_name, Mentioning(kArgs.brand_name, kArgs.responses))

LongestList ==
    Max2(0, CHOOSE n \in 0..10 :
               /\ \A i \in 1..Len(kArgs.responses) : Len(kArgs.responses[i].brands_list) <= n
               /\ n > 0 => \E i \in 1..Len(kArgs.responses) :
                              Len(kArgs.responses[i].brands_list) = n)

\* C27 as stated: the brand rank is null if and only if the brand is in no
\* record's mention list; otherwise it is the mean of the brand's 1-based
\* positions over the records that mention it, within [1, longest list].
C27_RankIsMeanOfPositions ==
    RankReturned =>
        /\ kOut.value = None <=> MentioningRecords = 0
        /\ kOut.value # None =>
              /\ kOut.value * MentioningRecords = 100 * PositionSum
              /\ 100 <= kOut.value /\ kOut.value <= 100 * LongestList

\* C27 amended: the brand rank is null if and only if the brand is in no
\* record's mention list; otherwise it is the mean of the brand's 1-based
\* positions over the records that mention it, rounded to two decimals,
\* within [1, longest list].
C27_RankIsRoundedMeanOfPositions ==
    RankReturned =>
        /\ kOut.value = None <=> MentioningRecords = 0
        /\ kOut.value # None =>
              /\ LET d == kOut.value * MentioningRecords - 100 * PositionSum
                 IN -MentioningRecords <= 2 * d /\ 2 * d <= MentioningRecords
              /\ 100 <= kOut.value /\ kOut.value <= 100 * LongestList

\* A rank that is a rounded mean: the brand is second in one record and
\* first in many, while other records do not mention it.
C27_Witness ==
    /\ RankReturned
    /\ kOut.value # None
    /\ kOut.value * MentioningRecords # 100 * PositionSum
    /\ MentioningRecords < TotalRecords

FlipCase(c) == IF c = "s" THEN "S" ELSE IF c = "S" THEN "s" ELSE c

InsertAt(name, i, c) == SubSeq(name, 1, i) \o <<c>> \o SubSeq(name, i + 1, Len(name))

\* The names one step away from name: one letter in the other case, a
\* trademark symbol put in anywhere, a blank put in front or behind, or a
\* blank put next to a blank.
Variants(name) ==
    {[name EXCEPT ![i] = FlipCase(name[i])] : i \in 1..Len(name)}
        \cup {InsertAt(name, i, t) : i \in 0..Len(name), t \in TrademarkSymbols}
        \cup {InsertAt(name, 0, " "), InsertAt(name, Len(name), " ")}
        \cup {InsertAt(name, i, " ") : i \in {j \in 1..Len(name) : name[j] = " "}}

\* C30: names that differ only in case, in surrounding or repeated
\* whitespace and in trademark symbols give the same mention rate and the
\* same rank on every list of records.
C30_MatchingIgnoresCaseSpaceTrademark ==
    /\ RateReturned =>
          \A v \in Variants(kArgs.brand_name) :
              calculate_mention_rate(v, kArgs.responses) = kOut.value
    /\ RankReturned =>
          \A v \in Variants(kArgs.brand_name) :
              calculate_brand_rank(v, kArgs.responses) = kOut.value

\* "S(tm) " is found in records that list "s".
C30_Witness ==
    /\ RateReturned
    /\ kArgs.brand_name = <<"S", "tm", " ">>
    /\ kOut.value > 0

-----------------------------------------------------------------------------
(* Claims about the citations (SpecCitations)                              *)

ListReturned == kArgs.fn = "calculate_citations_list" /\ kOut.returned
CitationRateReturned == kArgs.fn = "calculate_brand_domain_citation_rate" /\ kOut.returned

\* The URLs the records of the call cite.
CitedUrls ==
    UNION {{kArgs.responses[i].citation_list[j] :
               j \in 1..Len(kArgs.responses[i].citation_list)} :
           i \in 1..Len(kArgs.responses)}

\* The records of the call that cite the site of host at least once,
\* whatever the scheme, the "www.", the path and the query of the URL.
RecordsCiting(host) ==
    CountOf(SelectSeq(kArgs.responses,
                      LAMBDA r : \E j \in 1..Len(r.citation_list) : r.citation_list[j].host = host))

\* The site an entry of the list stands for.
HostOf(entry) == IF entry.url.netloc = << >> THEN "" ELSE entry.url.netloc[Len(entry.url.netloc)]

\* C28: the list has at most 5 entries, in the order of non-increasing
\* percentage (ties by raw count), no domain is in it twice, and each
\* percentage is the share of the records citing the domain at least once,
\* times 100, hence at most 100.
C28_TopCitationsShape ==
    ListReturned =>
        LET top_5 == kOut.value
        IN /\ Len(top_5) <= 5
           /\ \A i, j \in 1..Len(top_5) :
                 i < j =>
                    /\ top_5[i].percentage >= top_5[j].percentage
                    /\ top_5[i].percentage = top_5[j].percentage =>
                          RecordsCiting(HostOf(top_5[i])) >= RecordsCiting(HostOf(top_5[j]))
                    /\ HostOf(top_5[i]) # HostOf(top_5[j])
           /\ \A i \in 1..Len(top_5) :
                 /\ top_5[i].percentage <= 1000
                 /\ LET d == top_5[i].percentage * TotalRecords
                                - 1000 * RecordsCiting(HostOf(top_5[i]))
                    IN -TotalRecords <= 2 * d /\ 2 * d <= TotalRecords

\* Two URLs differ at most in scheme, leading "www.", path and query.
SameSite(u1, u2) == u1.host = u2.host

\* C29: citation URLs that differ only in scheme, leading "www.", path or
\* query count as one domain, and a domain cited several times in a record
\* counts once for that record, in the list of top citations and in the
\* brand domain citation rate, which matches them against the brand's own
\* domain.
C29_UrlVariantsAreOneDomain ==
    /\ ListReturned =>
          /\ \A u1, u2 \in CitedUrls : SameSite(u1, u2) => extract_domain(u1) = extract_domain(u2)
          /\ \A i \in 1..Len(kOut.value) : kOut.value[i].percentage <= 1000
    /\ CitationRateReturned =>
          LET d == kOut.value * TotalRecords - 1000 * RecordsCiting(kArgs.website.host)
          IN -TotalRecords <= 2 * d /\ 2 * d <= TotalRecords

-----------------------------------------------------------------------------
(* Claims about the ranking table (SpecRanking)                            *)

RankingReturned == kArgs.fn = "calculate_all_brands_ranking" /\ kOut.returned

\* The names the records list, as written.
ListedNames ==
    UNION {{kArgs.all_responses[i].brands_list[j] :
               j \in 1..Len(kArgs.all_responses[i].brands_list)} :
           i \in 1..Len(kArgs.all_responses)}

\* C31: the ranking table has one entry for every distinct normalized name
\* listed in any record, the entry of a name's normalized form holds the
\* brand rank of that name over the same records, and the entries are in
\* non-decreasing order of rank.
C31_RankingTableCoversEveryBrandInRankOrder ==
    RankingReturned =>
        LET table == kOut.value
        IN /\ {table[i].brand : i \in 1..Len(table)}
                 = {normalize_brand_name(b) : b \in ListedNames}
           /\ \A i, j \in 1..Len(table) : table[i].brand = table[j].brand => i = j
           /\ \A b \in ListedNames :
                  \E i \in 1..Len(table) :
                      /\ table[i].brand = normalize_brand_name(b)
                      /\ table[i].rank = calculate_brand_rank(b, kArgs.all_responses)
           /\ \A i \in 1..(Len(table) - 1) : table[i].rank <= table[i + 1].rank

\* The lists [Samsung, Apple, Google], [Samsung, Google], [Apple, Google]
\* give 1.0, 1.5 and 2.33.
C31_Witness ==
    /\ RankingReturned
    /\ kArgs.all_responses
          = <<Once(<<Samsung, Apple, Google>>), Once(<<Samsung, Google>>),
              Once(<<Apple, Google>>)>>
    /\ kOut.value = <<[brand |-> <<"s">>, rank |-> 100], [brand |-> <<"x">>, rank |-> 150],
                      [brand |-> <<"x", "s">>, rank |-> 233]>>

-----------------------------------------------------------------------------
(* Claims about a fan-out without tasks (SpecFanOut)                       *)

\* C38: with an empty prompt list or no provider, query_llms_parallel
\* returns a map with an empty result list per provider and raises nothing.
C38_EmptyUnitSetReturnsNormally ==
    (Tasks = {} /\ fPc # "start") =>
        /\ fPc = "returned"
        /\ fError = ""
        /\ fResults = [l \in fClients |-> << >>]

-----------------------------------------------------------------------------
(* Claims about the providers of a cache hit (SpecCache)                   *)

\* C36: a cache hit for some active providers holds the metrics of exactly
\* the active providers, and its computed_at is the oldest update among the
\* rows of those providers: the row of a provider that is not active is
\* left out of both.
C36_HitCoversExactlyActiveProviders ==
    (cOut.outcome = "hit" /\ cOut.active # {}) =>
        /\ cOut.metrics = cOut.active
        /\ \E m \in get_by_brand(cOut.brand_id) :
              /\ m.llm_name \in cOut.active
              /\ cOut.computed_at = m.updated_at
              /\ \A o \in get_by_brand(cOut.brand_id) :
                     o.llm_name \in cOut.active => m.updated_at <= o.updated_at

-----------------------------------------------------------------------------
(* Claims about the freshness of a stored metric (SpecMetrics)             *)

\* The provider's metric was computed from the responses it has now: no
\* response of the provider has been stored since (a metric's value counts
\* the responses it was computed from, and responses are never deleted).
NothingNewFor(l) ==
    \E m \in RowsOf(xBefore, xBrand, l) :
        m.value = Cardinality(get_by_brand_and_llm(xBrand, l))

\* C35: a computation that has returned reports a provider for which no new
\* response was stored with a failure marker and leaves the values and the
\* update time of its stored metric as they were, although responses of
\* earlier runs exist for it.
C35_MetricChangesOnlyWithNewResponses ==
    (xPc = "returned") =>
        \A l \in Processed :
            NothingNewFor(l) =>
                /\ xResult[l].status = "failed"
                /\ RowsOf(mTable, xBrand, l) = RowsOf(xBefore, xBrand, l)

-----------------------------------------------------------------------------
(* Claims about the brands table (SpecBrands)                              *)

\* The calls made so far all name one brand, in whatever case.
OneNameCalled ==
    /\ bLog # << >>
    /\ \A i \in 1..Len(bLog) : Lower(bLog[i].name) = Lower(bLog[1].name)

\* The rows whose name is the given one, in whatever case.
RowsNamed(name) == {b \in bRows : Lower(b.name) = Lower(name)}

\* C33: after get_or_create calls made one after the other with names that
\* are equal ignoring case, exactly one row has that name and every call
\* returned it; no name ever has two rows, and a row a call returned stays
\* in the table.
C33_GetOrCreateIdempotentByName ==
    /\ OneNameCalled =>
          \E brand \in bRows :
              /\ RowsNamed(bLog[1].name) = {brand}
              /\ \A i \in 1..Len(bLog) :
                     bLog[i].raised = "" /\ bLog[i].returned = brand.brand_id
    /\ \A name \in BrandNames : Cardinality(RowsNamed(name)) <= 1
    /\ \A i \in 1..Len(bLog) :
           bLog[i].raised = "" => \E brand \in bRows : brand.brand_id = bLog[i].returned

\* "S", "s", "S" with different websites: one row, created by the first
\* call and returned by all three.
C33_Witness ==
    /\ Len(bLog) = 3
    /\ bLog[1].name = <<"S">> /\ bLog[2].name = <<"s">> /\ bLog[3].name = <<"S">>
    /\ bLog[1].website # bLog[2].website
    /\ Cardinality(bRows) = 1
    /\ \A i \in 1..3 : bLog[i].returned = <<"brand", 1>>

-----------------------------------------------------------------------------
(* Claims about two requests at a time (SpecRace)                          *)

\* The request found no brand of its name and went on to create one.
TookCreate(r) == bReq[r].brand = r \/ bReq[r].raised = "IntegrityError"

\* Both requests are over, were for one website, and each found the brand
\* missing: they ran at the same time.
RacedForNewBrand ==
    /\ \A r \in Requests : bReq[r].pc \in {"returned", "raised"}
    /\ \A r, o \in Requests : bReq[r].website = bReq[o].website
    /\ \A r \in Requests : TookCreate(r)

\* C39: two requests for one new brand that run at the same time both
\* return a result, and the table then holds exactly one row of the brand.
C39_ConcurrentRequestsBothComplete ==
    RacedForNewBrand =>
        /\ \A r \in Requests : bReq[r].pc = "returned" /\ bReq[r].raised = ""
        /\ \A r \in Requests :
               Cardinality({b \in bRows : b.website = bReq[r].website}) = 1

-----------------------------------------------------------------------------
(* Claims about a request that follows a run (SpecPipeline, SpecMetrics)   *)

\* C34: a request for a brand that was requested before, with an active
\* provider that still has no stored metric (the earlier run left it with a
\* failure marker), is a cache miss again: it runs the whole pipeline,
\* queries every active provider and returns cached = false.
C34_FailedProviderForcesRecompute ==
    (/\ Requested
     /\ gCall.brand = "found"
     /\ \E l \in gCall.clients : l \notin gCall.stored) =>
        /\ gCall.raised = ""
        /\ gCall.cached = "false"
        /\ gCall.queried = gCall.clients
        /\ gCall.stages = <<"resolve", "query", "persist", "calculate", "aggregate">>

\* The computation was one of a cache-miss run: an active provider had no
\* stored metric when it began.
MissRun == \E l \in Processed : RowsOf(xBefore, xBrand, l) = {}

\* C37: when a cache-miss run's computation has returned and the cache gate
\* then reports a hit for the same brand and providers, the hit holds the
\* metrics of exactly the providers the run returned metrics for, with the
\* values the run returned.
C37_HitRepeatsTheRunsFigures ==
    (/\ xPc = "returned"
     /\ MissRun
     /\ check_cache(xBrand, Processed).outcome = "hit") =>
        /\ check_cache(xBrand, Processed).metrics
              = {l \in Processed : xResult[l].status = "ok"}
        /\ \A l \in Processed :
               \A m \in RowsOf(mTable, xBrand, l) : m.value = xResult[l].value

-----------------------------------------------------------------------------
(* Claims about an interrupted computation (SpecInterrupt)                 *)

\* The providers of the call, and whether the call belonged to a cache-miss
\* run: one of them had no stored metric when it began.
CalledFor == {xNames[i] : i \in 1..Len(xNames)}
BegunOnMiss == \E l \in CalledFor : RowsOf(xBefore, xBrand, l) = {}

====
